---- MODULE Spec2Model ----
(***************************************************************************)
(* Model of the scoring and recommendation engine of the stock portfolio   *)
(* manager (src/analysis.py) and of the data it is fed (src/data_fetch.py, *)
(* src/app.py).                                                            *)
(*                                                                         *)
(* Every number the Python code handles is an IEEE-754 binary64 value      *)
(* (Python float / numpy float64); small Python ints take part in the same *)
(* arithmetic after an exact conversion.  The thresholds of the program    *)
(* (0.1, 0.3, 0.05, 0.2, ...) are not representable in binary, so the      *)
(* model keeps the arithmetic of the program: a number is a sign, a 53-bit *)
(* significand and a binary exponent, and +, *, / round to nearest, ties   *)
(* to even.  Significands are naturals written in limbs of 15 bits, least  *)
(* significant first, because the integers of the checker have 32 bits.    *)
(***************************************************************************)
EXTENDS Integers, Sequences, FiniteSets, TLC

----------------------------------------------------------------------------
(* Naturals of any size, as sequences of limbs (base 2^15, little endian,  *)
(* no leading zero limb; the empty sequence is 0).                         *)

LimbBits == 15
LimbBase == 32768
SigBits == 53

RECURSIVE Pow2(_)
Pow2(n) == IF n = 0 THEN 1 ELSE 2 * Pow2(n - 1)

RECURSIVE BTrim(_)
BTrim(a) ==
  IF a = <<>> THEN a
  ELSE IF a[Len(a)] = 0 THEN BTrim(SubSeq(a, 1, Len(a) - 1)) ELSE a

BLimb(a, i) == IF i <= Len(a) THEN a[i] ELSE 0

RECURSIVE BAddFrom(_, _, _, _)
BAddFrom(a, b, i, c) ==
  IF i > Len(a) /\ i > Len(b)
  THEN (IF c = 0 THEN <<>> ELSE <<c>>)
  ELSE LET t == BLimb(a, i) + BLimb(b, i) + c
       IN  <<t % LimbBase>> \o BAddFrom(a, b, i + 1, t \div LimbBase)

BAdd(a, b) == BAddFrom(a, b, 1, 0)

RECURSIVE BSubFrom(_, _, _, _)
BSubFrom(a, b, i, br) ==
  IF i > Len(a) THEN <<>>
  ELSE LET t == a[i] - BLimb(b, i) - br
       IN  <<IF t < 0 THEN t + LimbBase ELSE t>>
             \o BSubFrom(a, b, i + 1, IF t < 0 THEN 1 ELSE 0)

\* a - b for a >= b
BSub(a, b) == BTrim(BSubFrom(a, b, 1, 0))

RECURSIVE BCmpFrom(_, _, _)
BCmpFrom(a, b, i) ==
  IF i = 0 THEN 0
  ELSE IF a[i] > b[i] THEN 1
  ELSE IF a[i] < b[i] THEN -1
  ELSE BCmpFrom(a, b, i - 1)

\* -1, 0, 1 as a < b, a = b, a > b
BCmp(a, b) ==
  IF Len(a) > Len(b) THEN 1
  ELSE IF Len(a) < Len(b) THEN -1
  ELSE BCmpFrom(a, b, Len(a))

RECURSIVE BMulSmallFrom(_, _, _, _)
BMulSmallFrom(a, k, i, c) ==
  IF i > Len(a)
  THEN (IF c = 0 THEN <<>> ELSE <<c>>)
  ELSE LET t == a[i] * k + c
       IN  <<t % LimbBase>> \o BMulSmallFrom(a, k, i + 1, t \div LimbBase)

\* a * k for 0 <= k < 2^15
BMulSmall(a, k) == BTrim(BMulSmallFrom(a, k, 1, 0))

RECURSIVE BMul(_, _)
BMul(a, b) ==
  IF b = <<>> \/ a = <<>> THEN <<>>
  ELSE BTrim(BAdd(BMulSmall(a, b[1]), <<0>> \o BMul(a, Tail(b))))

RECURSIVE BDivSmallFrom(_, _, _, _)
BDivSmallFrom(a, d, i, r) ==
  IF i = 0 THEN [q |-> <<>>, r |-> r]
  ELSE LET cur  == r * LimbBase + a[i]
           rest == BDivSmallFrom(a, d, i - 1, cur % d)
       IN  [q |-> Append(rest.q, cur \div d), r |-> rest.r]

BTrimQuotient(x) == [q |-> BTrim(x.q), r |-> x.r]

\* quotient and remainder of a by d, 0 < d <= 2^15
BDivSmall(a, d) == BTrimQuotient(BDivSmallFrom(a, d, Len(a), 0))

RECURSIVE BitLenSmall(_)
BitLenSmall(x) == IF x = 0 THEN 0 ELSE 1 + BitLenSmall(x \div 2)

BBitLen(a) ==
  IF a = <<>> THEN 0 ELSE LimbBits * (Len(a) - 1) + BitLenSmall(a[Len(a)])

BZeros(n) == [i \in 1..n |-> 0]

\* a * 2^n
BShl(a, n) ==
  IF a = <<>> THEN a
  ELSE BZeros(n \div LimbBits) \o BMulSmall(a, Pow2(n % LimbBits))

\* a \div 2^n
BShr(a, n) ==
  IF n \div LimbBits >= Len(a) THEN <<>>
  ELSE BDivSmall(SubSeq(a, n \div LimbBits + 1, Len(a)), Pow2(n % LimbBits)).q

BFromNat(n) == BTrim(<<n % LimbBase, n \div LimbBase>>)

----------------------------------------------------------------------------
(* binary64 values: k = "num" is (-1)^s * m * 2^e with m of exactly 53     *)
(* bits, or m = <<>> for zero; k = "nan" is not-a-number.  Exponent range  *)
(* (overflow, subnormals) is not modelled: no value of the program comes   *)
(* near it.                                                                *)

NaN == [k |-> "nan", s |-> 0, m |-> <<>>, e |-> 0]
FZero == [k |-> "num", s |-> 0, m |-> <<>>, e |-> 0]

IsNaN(x) == x.k = "nan"
IsZero(x) == x.k = "num" /\ x.m = <<>>

\* a significand of 53 or 54 bits (54 after a carry out of the rounding)
FPack(s, q, e) ==
  IF BBitLen(q) > SigBits
  THEN [k |-> "num", s |-> s, m |-> BShr(q, 1), e |-> e + 1]
  ELSE [k |-> "num", s |-> s, m |-> q, e |-> e]

\* round to nearest, ties to even: c compares the bits cut off with one half
\* of the last place kept
RoundsUp(c, sticky, odd) == c > 0 \/ (c = 0 /\ (sticky \/ odd))

\* N cut to q = N \div 2^r
FRoundCut(s, N, e, sticky, r, q) ==
  FPack(s,
        IF RoundsUp(BCmp(BSub(N, BShl(q, r)), BShl(<<1>>, r - 1)), sticky, q[1] % 2 = 1)
        THEN BAdd(q, <<1>>) ELSE q,
        e + r)

\* N # 0 of L bits
FRoundLen(s, N, e, sticky, L) ==
  IF L <= SigBits
  THEN [k |-> "num", s |-> s, m |-> BShl(N, SigBits - L), e |-> e - (SigBits - L)]
  ELSE FRoundCut(s, N, e, sticky, L - SigBits, BShr(N, L - SigBits))

\* (-1)^s * N * 2^e (plus something below the last bit of N when sticky),
\* rounded to nearest, ties to even
FRound(s, N, e, sticky) ==
  IF N = <<>> THEN [FZero EXCEPT !.s = s] ELSE FRoundLen(s, N, e, sticky, BBitLen(N))

\* a Python int (exactly representable)
FInt(n) == FRound(IF n < 0 THEN 1 ELSE 0, BFromNat(IF n < 0 THEN -n ELSE n), 0, FALSE)

FNeg(x) == IF IsNaN(x) THEN x ELSE [x EXCEPT !.s = 1 - x.s]

\* the smaller exponent of x and y (of the one that is not zero)
MinExp(x, y) ==
  IF IsZero(x) THEN y.e ELSE IF IsZero(y) THEN x.e
  ELSE IF x.e < y.e THEN x.e ELSE y.e

\* the significand of x over the exponent e <= x.e
Aligned(x, e) == IF IsZero(x) THEN <<>> ELSE BShl(x.m, x.e - e)

\* c compares the magnitudes
FCmpMag(xs, ys, xzero, yzero, c) ==
  IF xzero /\ yzero THEN 0
  ELSE IF xzero THEN (IF ys = 1 THEN 1 ELSE -1)
  ELSE IF yzero THEN (IF xs = 1 THEN -1 ELSE 1)
  ELSE IF xs # ys THEN (IF xs = 1 THEN -1 ELSE 1)
  ELSE IF xs = 0 THEN c ELSE -c

FCmpAt(x, y, e) ==
  FCmpMag(x.s, y.s, IsZero(x), IsZero(y), BCmp(Aligned(x, e), Aligned(y, e)))

\* -1, 0, 1 as x < y, x = y, x > y (neither NaN); -0 = +0
FCmp(x, y) == FCmpAt(x, y, MinExp(x, y))

\* Python's <, >, ==, <=, >= on floats: every comparison with NaN is false
FLt(x, y) == ~IsNaN(x) /\ ~IsNaN(y) /\ FCmp(x, y) < 0
FGt(x, y) == FLt(y, x)
FEq(x, y) == ~IsNaN(x) /\ ~IsNaN(y) /\ FCmp(x, y) = 0
FLe(x, y) == ~IsNaN(x) /\ ~IsNaN(y) /\ FCmp(x, y) <= 0
FGe(x, y) == FLe(y, x)

\* X, Y the magnitudes over the exponent e, c their comparison
FAddMag(xs, ys, X, Y, e, c) ==
  FRound(IF xs = ys THEN xs ELSE IF c = 0 THEN 0 ELSE IF c > 0 THEN xs ELSE ys,
         IF xs = ys THEN BAdd(X, Y) ELSE IF c >= 0 THEN BSub(X, Y) ELSE BSub(Y, X),
         e, FALSE)

FAddAligned(xs, ys, X, Y, e) == FAddMag(xs, ys, X, Y, e, BCmp(X, Y))

FAddAt(x, y, e) == FAddAligned(x.s, y.s, Aligned(x, e), Aligned(y, e), e)

\* x + y
FAdd(x, y) ==
  IF IsNaN(x) \/ IsNaN(y) THEN NaN
  ELSE IF IsZero(x) /\ IsZero(y) THEN (IF x.s = 1 /\ y.s = 1 THEN x ELSE FZero)
  ELSE IF IsZero(x) THEN y
  ELSE IF IsZero(y) THEN x
  ELSE FAddAt(x, y, MinExp(x, y))

\* x - y
FSub(x, y) == FAdd(x, FNeg(y))

\* x * y
FMul(x, y) ==
  IF IsNaN(x) \/ IsNaN(y) THEN NaN
  ELSE IF IsZero(x) \/ IsZero(y) THEN [FZero EXCEPT !.s = IF x.s = y.s THEN 0 ELSE 1]
  ELSE FRound(IF x.s = y.s THEN 0 ELSE 1, BMul(x.m, y.m), x.e + y.e, FALSE)

GuardBits == 30

FRoundQuotient(s, d, e) == FRound(s, d.q, e, d.r # 0)

\* x / n for a Python int 0 < n <= 2^15
FDivInt(x, n) ==
  IF IsNaN(x) THEN NaN
  ELSE IF IsZero(x) THEN x
  ELSE FRoundQuotient(x.s, BDivSmall(BShl(x.m, GuardBits), n), x.e - GuardBits)

\* the float literal n/d written in decimal (d a power of ten), for example
\* Dec(5, 100) is Python's 0.05
Dec(n, d) == FDivInt(FInt(n), d)

----------------------------------------------------------------------------
(* The float literals of the program.                                      *)

Lit_0 == FInt(0)
Lit_0_05 == Dec(5, 100)
Lit_0_1 == Dec(1, 10)
Lit_0_2 == Dec(2, 10)
Lit_0_25 == Dec(25, 100)
Lit_0_3 == Dec(3, 10)
Lit_0_4 == Dec(4, 10)
Lit_0_5 == Dec(5, 10)
Lit_1 == FInt(1)
Lit_1_5 == Dec(15, 10)
Lit_2 == FInt(2)
Lit_5 == FInt(5)
Lit_30 == FInt(30)
Lit_50 == FInt(50)
Lit_70 == FInt(70)

----------------------------------------------------------------------------
(* The state: one call of a function of src/analysis.py.  args holds the   *)
(* arguments under the parameter names of the source, result what the      *)
(* call returned, and pc where the call is: "call" before it ran, "return" *)
(* after it returned, "raise" after an exception left it.                  *)

VARIABLES pc, args, result

vars == <<pc, args, result>>

None == [none |-> TRUE]

\* dict.get(key, default) and the membership test behind dict[key]
Has(d, key) == key \in DOMAIN d
Get(d, key, default) == IF key \in DOMAIN d THEN d[key] ELSE default

\* pd.isna of a number
isna(x) == IsNaN(x)

----------------------------------------------------------------------------
(* analyze_sentiment.  The VADER analyzer is a library outside the         *)
(* repository: a headline's title stands for the four scores the analyzer  *)
(* gives it, which polarity_scores looks up.                               *)

TitleScores ==
  [crash    |-> [compound |-> Dec(-5, 10),  pos |-> Lit_0,      neg |-> Lit_0_4,    neu |-> Dec(6, 10)],
   falls    |-> [compound |-> Dec(-2, 10),  pos |-> Lit_0,      neg |-> Lit_0_2,    neu |-> Dec(8, 10)],
   dips     |-> [compound |-> Dec(-5, 100), pos |-> Lit_0_1,    neg |-> Lit_0_1,    neu |-> Dec(8, 10)],
   reports  |-> [compound |-> Lit_0,        pos |-> Lit_0,      neg |-> Lit_0,      neu |-> Lit_1],
   edges_up |-> [compound |-> Dec(5, 100),  pos |-> Lit_0_1,    neg |-> Lit_0,      neu |-> Dec(9, 10)],
   gains    |-> [compound |-> Dec(2, 10),   pos |-> Lit_0_2,    neg |-> Lit_0,      neu |-> Dec(8, 10)],
   soars    |-> [compound |-> Dec(5, 10),   pos |-> Lit_0_5,    neg |-> Lit_0,      neu |-> Lit_0_5]]

Titles == DOMAIN TitleScores

polarity_scores(title) == TitleScores[title]

RECURSIVE FSumFrom(_, _, _)
FSumFrom(xs, i, acc) ==
  IF i > Len(xs) THEN acc ELSE FSumFrom(xs, i + 1, FAdd(acc, xs[i]))

\* np.mean of a non-empty list: the sum from left to right, divided by the count
np_mean(xs) == FDivInt(FSumFrom(xs, 1, Lit_0), Len(xs))

SentimentCategory_ge(avg_compound) ==
  IF FGe(avg_compound, Lit_0_2) THEN "Very Positive"
  ELSE IF FGe(avg_compound, Lit_0_05) THEN "Positive"
  ELSE IF FLe(avg_compound, FNeg(Lit_0_2)) THEN "Very Negative"
  ELSE IF FLe(avg_compound, FNeg(Lit_0_05)) THEN "Negative"
  ELSE "Neutral"

SentimentCategory(avg_compound) ==
  IF FGt(avg_compound, Lit_0_2) THEN "Very Positive"
  ELSE IF FGt(avg_compound, Lit_0_05) THEN "Positive"
  ELSE IF FLt(avg_compound, FNeg(Lit_0_2)) THEN "Very Negative"
  ELSE IF FLt(avg_compound, FNeg(Lit_0_05)) THEN "Negative"
  ELSE "Neutral"

EmptySentiment_drift ==
  [compound_score |-> Lit_0, sentiment |-> "Neutral",
   positive_score |-> Lit_0, negative_score |-> Lit_0, neutral_score |-> Lit_1]

EmptySentiment ==
  [compound_score |-> Lit_0, sentiment |-> "Neutral",
   positive_score |-> Lit_0, negative_score |-> Lit_0, neutral_score |-> Lit_0]

analyze_sentiment(headlines) ==
  IF headlines = <<>> THEN EmptySentiment
  ELSE
    LET scores          == [i \in 1..Len(headlines) |-> polarity_scores(headlines[i].title)]
        compound_scores == [i \in 1..Len(headlines) |-> scores[i].compound]
        positive_scores == [i \in 1..Len(headlines) |-> scores[i].pos]
        negative_scores == [i \in 1..Len(headlines) |-> scores[i].neg]
        neutral_scores  == [i \in 1..Len(headlines) |-> scores[i].neu]
        avg_compound    == np_mean(compound_scores)
    IN  [compound_score |-> avg_compound,
         sentiment      |-> SentimentCategory(avg_compound),
         positive_score |-> np_mean(positive_scores),
         negative_score |-> np_mean(negative_scores),
         neutral_score  |-> np_mean(neutral_scores)]

MaxHeadlines == 3

RECURSIVE SeqsUpTo(_, _)
SeqsUpTo(S, n) ==
  IF n = 0 THEN {<<>>}
  ELSE LET shorter == SeqsUpTo(S, n - 1)
       IN  shorter \cup {Append(q, x) : q \in {p \in shorter : Len(p) = n - 1}, x \in S}

Headline(title) == [title |-> title]

HeadlineLists == SeqsUpTo({Headline(t) : t \in Titles}, MaxHeadlines)

InitSentiment ==
  /\ pc = "call"
  /\ args \in {[headlines |-> h] : h \in HeadlineLists}
  /\ result = None

AnalyzeSentiment ==
  /\ pc = "call"
  /\ result' = analyze_sentiment(args.headlines)
  /\ pc' = "return"
  /\ UNCHANGED args

NextSentiment == AnalyzeSentiment

SpecSentiment == InitSentiment /\ [][NextSentiment]_vars

----------------------------------------------------------------------------
(* calculate_momentum_signal *)

ma_signal(ma50, ma200) == IF FGt(ma50, ma200) THEN "Bullish" ELSE "Bearish"

price_vs_ma50(current_price, ma50) ==
  IF FGt(current_price, ma50) THEN "Above" ELSE "Below"

rsi_signal(rsi) ==
  IF FGt(rsi, Lit_70) THEN "Overbought"
  ELSE IF FLt(rsi, Lit_30) THEN "Oversold"
  ELSE "Neutral"

\* MA signal (40% weight)
MomentumMA_light(momentum_score, ma) ==
  IF ma = "Bullish" THEN FAdd(momentum_score, Lit_0_3)
  ELSE IF ma = "Bearish" THEN FSub(momentum_score, Lit_0_3)
  ELSE momentum_score

MomentumMA(momentum_score, ma) ==
  IF ma = "Bullish" THEN FAdd(momentum_score, Lit_0_4)
  ELSE IF ma = "Bearish" THEN FSub(momentum_score, Lit_0_4)
  ELSE momentum_score

\* Price vs MA50 (30% weight)
MomentumPrice(momentum_score, pos) ==
  IF pos = "Above" THEN FAdd(momentum_score, Lit_0_3)
  ELSE FSub(momentum_score, Lit_0_3)

\* RSI signal (30% weight)
MomentumRSI(momentum_score, sig) ==
  IF sig = "Oversold" THEN FAdd(momentum_score, Lit_0_3)
  ELSE IF sig = "Overbought" THEN FSub(momentum_score, Lit_0_3)
  ELSE momentum_score

\* the combined momentum score of known moving averages
momentum_score_of(ma50, ma200, current_price, rsi) ==
  MomentumRSI(MomentumPrice(MomentumMA(Lit_0, ma_signal(ma50, ma200)),
                            price_vs_ma50(current_price, ma50)),
              rsi_signal(rsi))

FinalMomentum(momentum_score) ==
  IF FGt(momentum_score, Lit_0_3) THEN "Strong Bullish"
  ELSE IF FGt(momentum_score, Lit_0_1) THEN "Bullish"
  ELSE IF FLt(momentum_score, FNeg(Lit_0_3)) THEN "Strong Bearish"
  ELSE IF FLt(momentum_score, FNeg(Lit_0_1)) THEN "Bearish"
  ELSE "Neutral"

calculate_momentum_signal_ma50_only(ma50, ma200, current_price, rsi, volatility) ==
  IF isna(ma50) THEN "Neutral"
  ELSE FinalMomentum(momentum_score_of(ma50, ma200, current_price, rsi))

calculate_momentum_signal_damped(ma50, ma200, current_price, rsi, volatility) ==
  IF isna(ma50) \/ isna(ma200) \/ FGt(volatility, Lit_0_05) THEN "Neutral"
  ELSE FinalMomentum(momentum_score_of(ma50, ma200, current_price, rsi))

calculate_momentum_signal(ma50, ma200, current_price, rsi, volatility) ==
  IF isna(ma50) \/ isna(ma200) THEN "Neutral"
  ELSE FinalMomentum(momentum_score_of(ma50, ma200, current_price, rsi))

MovingAverages == {NaN, FInt(90), FInt(100), FInt(110)}
Prices == {FInt(95), FInt(100), FInt(105)}
RsiValues == {NaN, FInt(25), Lit_30, Lit_50, Lit_70, FInt(75)}
Volatilities == {Lit_0, Dec(3, 100), Lit_0_05, Dec(6, 100)}

InitMomentum ==
  /\ pc = "call"
  /\ args \in [ma50 : MovingAverages, ma200 : MovingAverages, current_price : Prices,
               rsi : RsiValues, volatility : Volatilities]
  /\ result = None

CalculateMomentumSignal ==
  /\ pc = "call"
  /\ result' = calculate_momentum_signal(args.ma50, args.ma200, args.current_price,
                                         args.rsi, args.volatility)
  /\ pc' = "return"
  /\ UNCHANGED args

NextMomentum == CalculateMomentumSignal

SpecMomentum == InitMomentum /\ [][NextMomentum]_vars

----------------------------------------------------------------------------
(* calculate_technical_score.  A snapshot (stock_data of one ticker) is a  *)
(* dict: a function from the keys it holds to their values.                *)

\* score += delta; signals.append(tag)
Bump(acc, delta, tag) ==
  [score |-> FAdd(acc.score, delta), signals |-> Append(acc.signals, tag)]

\* signals.append(tag)
Tag(acc, tag) == [acc EXCEPT !.signals = Append(@, tag)]

RsiAnalysis(acc, rsi) ==
  IF FLt(rsi, Lit_30) THEN Bump(acc, Lit_1, "RSI Oversold")
  ELSE IF FGt(rsi, Lit_70) THEN Bump(acc, FNeg(Lit_1), "RSI Overbought")
  ELSE Bump(acc, Lit_0_5, "RSI Neutral")

MovingAverageAnalysis_negated(acc, current_price, ma20, ma50, ma200) ==
  IF ~FLe(current_price, ma20) /\ ~FLe(ma20, ma50) /\ ~FLe(ma50, ma200)
  THEN Bump(acc, Lit_2, "Strong Uptrend")
  ELSE IF ~FLe(current_price, ma20) /\ ~FLe(ma20, ma50)
  THEN Bump(acc, Lit_1, "Uptrend")
  ELSE IF ~FGe(current_price, ma20) /\ ~FGe(ma20, ma50) /\ ~FGe(ma50, ma200)
  THEN Bump(acc, FNeg(Lit_2), "Strong Downtrend")
  ELSE IF ~FGe(current_price, ma20) /\ ~FGe(ma20, ma50)
  THEN Bump(acc, FNeg(Lit_1), "Downtrend")
  ELSE Tag(acc, "Mixed Signals")

MovingAverageAnalysis_additive(acc, current_price, ma20, ma50, ma200) ==
  IF FGt(current_price, ma20) /\ FGt(ma20, ma50) /\ FGt(ma50, ma200)
  THEN Bump(Bump(acc, Lit_2, "Strong Uptrend"), Lit_1, "Uptrend")
  ELSE IF FGt(current_price, ma20) /\ FGt(ma20, ma50)
  THEN Bump(acc, Lit_1, "Uptrend")
  ELSE IF FLt(current_price, ma20) /\ FLt(ma20, ma50) /\ FLt(ma50, ma200)
  THEN Bump(Bump(acc, FNeg(Lit_2), "Strong Downtrend"), FNeg(Lit_1), "Downtrend")
  ELSE IF FLt(current_price, ma20) /\ FLt(ma20, ma50)
  THEN Bump(acc, FNeg(Lit_1), "Downtrend")
  ELSE Tag(acc, "Mixed Signals")

MovingAverageAnalysis_nonstrict(acc, current_price, ma20, ma50, ma200) ==
  IF FGe(current_price, ma20) /\ FGe(ma20, ma50) /\ FGe(ma50, ma200)
  THEN Bump(acc, Lit_2, "Strong Uptrend")
  ELSE IF FGe(current_price, ma20) /\ FGe(ma20, ma50)
  THEN Bump(acc, Lit_1, "Uptrend")
  ELSE IF FLe(current_price, ma20) /\ FLe(ma20, ma50) /\ FLe(ma50, ma200)
  THEN Bump(acc, FNeg(Lit_2), "Strong Downtrend")
  ELSE IF FLe(current_price, ma20) /\ FLe(ma20, ma50)
  THEN Bump(acc, FNeg(Lit_1), "Downtrend")
  ELSE Tag(acc, "Mixed Signals")

MovingAverageAnalysis(acc, current_price, ma20, ma50, ma200) ==
  IF FGt(current_price, ma20) /\ FGt(ma20, ma50) /\ FGt(ma50, ma200)
  THEN Bump(acc, Lit_2, "Strong Uptrend")
  ELSE IF FGt(current_price, ma20) /\ FGt(ma20, ma50)
  THEN Bump(acc, Lit_1, "Uptrend")
  ELSE IF FLt(current_price, ma20) /\ FLt(ma20, ma50) /\ FLt(ma50, ma200)
  THEN Bump(acc, FNeg(Lit_2), "Strong Downtrend")
  ELSE IF FLt(current_price, ma20) /\ FLt(ma20, ma50)
  THEN Bump(acc, FNeg(Lit_1), "Downtrend")
  ELSE Tag(acc, "Mixed Signals")

VolumeAnalysis_double(acc, avg_volume, current_volume) ==
  IF FGt(current_volume, FMul(avg_volume, Lit_2))
  THEN Bump(acc, Lit_0_5, "High Volume")
  ELSE IF FLt(current_volume, FMul(avg_volume, Lit_0_5))
  THEN Bump(acc, FNeg(Lit_0_5), "Low Volume")
  ELSE acc

VolumeAnalysis_inclusive(acc, avg_volume, current_volume) ==
  IF FGe(current_volume, FMul(avg_volume, Lit_1_5))
  THEN Bump(acc, Lit_0_5, "High Volume")
  ELSE IF FLe(current_volume, FMul(avg_volume, Lit_0_5))
  THEN Bump(acc, FNeg(Lit_0_5), "Low Volume")
  ELSE acc

VolumeAnalysis(acc, avg_volume, current_volume) ==
  IF FGt(current_volume, FMul(avg_volume, Lit_1_5))
  THEN Bump(acc, Lit_0_5, "High Volume")
  ELSE IF FLt(current_volume, FMul(avg_volume, Lit_0_5))
  THEN Bump(acc, FNeg(Lit_0_5), "Low Volume")
  ELSE acc

VolatilityAnalysis_first(acc, volatility) ==
  IF FGt(volatility, Lit_0_05)
  THEN [score |-> FAdd(acc.score, Lit_0_3),
        signals |-> <<"High Volatility">> \o acc.signals]
  ELSE acc

VolatilityAnalysis(acc, volatility) ==
  IF FGt(volatility, Lit_0_05) THEN Bump(acc, Lit_0_3, "High Volatility") ELSE acc

TechnicalResult(acc, rsi) ==
  [score   |-> acc.score,
   signals |-> acc.signals,
   rsi     |-> rsi,
   trend   |-> IF FGt(acc.score, Lit_0) THEN "Uptrend"
               ELSE IF FLt(acc.score, Lit_0) THEN "Downtrend"
               ELSE "Sideways"]

KeyError == [raised |-> "KeyError"]

TechnicalOf(stock_data, current_price) ==
  TechnicalResult(
    VolatilityAnalysis(
      VolumeAnalysis(
        MovingAverageAnalysis(
          RsiAnalysis([score |-> Lit_0, signals |-> <<>>], Get(stock_data, "rsi", Lit_50)),
          current_price,
          Get(stock_data, "ma20", current_price),
          Get(stock_data, "ma50", current_price),
          Get(stock_data, "ma200", current_price)),
        Get(stock_data, "avg_volume", Lit_0),
        Get(stock_data, "volume", Lit_0)),
      Get(stock_data, "volatility", Lit_0)),
    Get(stock_data, "rsi", Lit_50))

\* stock_data['current_price'] raises KeyError when the key is missing
calculate_technical_score(stock_data) ==
  IF ~Has(stock_data, "current_price") THEN KeyError
  ELSE TechnicalOf(stock_data, stock_data["current_price"])

\* a dict drawn field by field, a field being a value or missing
Absent == [absent |-> TRUE]
Opt(S) == S \cup {Absent}
DictOf(r) == [key \in {x \in DOMAIN r : r[x] # Absent} |-> r[key]]

\* only the required fields
SnapshotMinimal == [current_price |-> FInt(100), company_name |-> "X"]

TechnicalSnapshots ==
  {SnapshotMinimal} \cup
  {DictOf(r) : r \in
     [current_price : {FInt(100)},
      rsi        : Opt({FInt(25), Lit_30, FInt(75)}),
      ma20       : Opt({NaN, FInt(95), FInt(100), FInt(105)}),
      ma50       : Opt({NaN, FInt(90), FInt(95), FInt(110)}),
      ma200      : Opt({NaN, FInt(85), FInt(90), FInt(115)}),
      volume     : Opt({FInt(20), FInt(25), FInt(60), FInt(75), FInt(100)}),
      avg_volume : Opt({NaN, Lit_0, Lit_50}),
      volatility : Opt({Lit_0_05, Dec(6, 100)})]}

InitTechnical ==
  /\ pc = "call"
  /\ args \in {[stock_data |-> d] : d \in TechnicalSnapshots}
  /\ result = None

CalculateTechnicalScore ==
  /\ pc = "call"
  /\ result' = calculate_technical_score(args.stock_data)
  /\ pc' = IF result' = KeyError THEN "raise" ELSE "return"
  /\ UNCHANGED args

NextTechnical == CalculateTechnicalScore

SpecTechnical == InitTechnical /\ [][NextTechnical]_vars

----------------------------------------------------------------------------
(* generate_recommendation *)

\* momentum_scores.get(momentum, 0)
momentum_scores_flipped(momentum) ==
  CASE momentum = "Strong Bullish" -> FInt(2)
    [] momentum = "Bullish"        -> FInt(1)
    [] momentum = "Neutral"        -> FInt(0)
    [] momentum = "Bearish"        -> FInt(1)
    [] momentum = "Strong Bearish" -> FInt(-2)
    [] OTHER                       -> FInt(0)

momentum_scores(momentum) ==
  CASE momentum = "Strong Bullish" -> FInt(2)
    [] momentum = "Bullish"        -> FInt(1)
    [] momentum = "Neutral"        -> FInt(0)
    [] momentum = "Bearish"        -> FInt(-1)
    [] momentum = "Strong Bearish" -> FInt(-2)
    [] OTHER                       -> FInt(0)

\* sentiment_scores.get(sentiment, 0)
sentiment_scores_wary(sentiment) ==
  CASE sentiment = "Very Positive" -> FInt(2)
    [] sentiment = "Positive"      -> FInt(1)
    [] sentiment = "Neutral"       -> FInt(0)
    [] sentiment = "Negative"      -> FInt(-1)
    [] sentiment = "Very Negative" -> FInt(-2)
    [] OTHER                       -> FInt(-1)

sentiment_scores_flat(sentiment) ==
  CASE sentiment = "Very Positive" -> FInt(1)
    [] sentiment = "Positive"      -> FInt(1)
    [] sentiment = "Neutral"       -> FInt(0)
    [] sentiment = "Negative"      -> FInt(-1)
    [] sentiment = "Very Negative" -> FInt(-1)
    [] OTHER                       -> FInt(0)

sentiment_scores(sentiment) ==
  CASE sentiment = "Very Positive" -> FInt(2)
    [] sentiment = "Positive"      -> FInt(1)
    [] sentiment = "Neutral"       -> FInt(0)
    [] sentiment = "Negative"      -> FInt(-1)
    [] sentiment = "Very Negative" -> FInt(-2)
    [] OTHER                       -> FInt(0)

PriceScore1d(price_score, price_change_1d) ==
  IF FGt(price_change_1d, Lit_2) THEN FAdd(price_score, Lit_0_5)
  ELSE IF FLt(price_change_1d, FNeg(Lit_2)) THEN FSub(price_score, Lit_0_5)
  ELSE price_score

PriceScore5d_inclusive(price_score, price_change_5d) ==
  IF FGe(price_change_5d, Lit_5) THEN FAdd(price_score, Lit_0_3)
  ELSE IF FLe(price_change_5d, FNeg(Lit_5)) THEN FSub(price_score, Lit_0_3)
  ELSE price_score

PriceScore5d(price_score, price_change_5d) ==
  IF FGt(price_change_5d, Lit_5) THEN FAdd(price_score, Lit_0_3)
  ELSE IF FLt(price_change_5d, FNeg(Lit_5)) THEN FSub(price_score, Lit_0_3)
  ELSE price_score

price_score_of(price_changes) ==
  PriceScore5d(PriceScore1d(Lit_0, Get(price_changes, "price_change_1d", Lit_0)),
               Get(price_changes, "price_change_5d", Lit_0))

WeightedTotal_raw_technical(momentum_score, sentiment_score, analyst_score, technical_score_val, price_score) ==
  FAdd(FAdd(FAdd(FAdd(FMul(momentum_score, Lit_0_25),
                      FMul(sentiment_score, Lit_0_2)),
                 FMul(analyst_score, Lit_0_2)),
            technical_score_val),
       FMul(price_score, Lit_0_1))

WeightedTotal(momentum_score, sentiment_score, analyst_score, technical_score_val, price_score) ==
  FAdd(FAdd(FAdd(FAdd(FMul(momentum_score, Lit_0_25),
                      FMul(sentiment_score, Lit_0_2)),
                 FMul(analyst_score, Lit_0_2)),
            FMul(technical_score_val, Lit_0_25)),
       FMul(price_score, Lit_0_1))

Recommendation(action, confidence, reasoning, total_score) ==
  [action |-> action, confidence |-> confidence, reasoning |-> reasoning,
   score |-> total_score]

DetailedRecommendation_inclusive(total_score) ==
  IF FGe(total_score, Lit_1_5)
  THEN Recommendation("Strong Buy", "High",
                      "Multiple positive signals across all indicators", total_score)
  ELSE IF FGe(total_score, Lit_0_5)
  THEN Recommendation("Buy", "Medium",
                      "Generally positive signals with some mixed indicators", total_score)
  ELSE IF FGe(total_score, FNeg(Lit_0_5))
  THEN Recommendation("Hold", "Medium",
                      "Mixed signals, wait for clearer direction", total_score)
  ELSE IF FGe(total_score, FNeg(Lit_1_5))
  THEN Recommendation("Consider Selling", "Medium",
                      "Generally negative signals with some mixed indicators", total_score)
  ELSE Recommendation("Strong Sell", "High",
                      "Multiple negative signals across all indicators", total_score)

DetailedRecommendation(total_score) ==
  IF FGt(total_score, Lit_1_5)
  THEN Recommendation("Strong Buy", "High",
                      "Multiple positive signals across all indicators", total_score)
  ELSE IF FGt(total_score, Lit_0_5)
  THEN Recommendation("Buy", "Medium",
                      "Generally positive signals with some mixed indicators", total_score)
  ELSE IF FGt(total_score, FNeg(Lit_0_5))
  THEN Recommendation("Hold", "Medium",
                      "Mixed signals, wait for clearer direction", total_score)
  ELSE IF FGt(total_score, FNeg(Lit_1_5))
  THEN Recommendation("Consider Selling", "Medium",
                      "Generally negative signals with some mixed indicators", total_score)
  ELSE Recommendation("Strong Sell", "High",
                      "Multiple negative signals across all indicators", total_score)

generate_recommendation(momentum, sentiment, analyst_score, technical_score, price_changes) ==
  DetailedRecommendation(
    WeightedTotal(momentum_scores(momentum),
                  sentiment_scores(sentiment),
                  analyst_score,
                  Get(technical_score, "score", Lit_0),
                  price_score_of(price_changes)))

MomentumLabels == {"Strong Bullish", "Bullish", "Neutral", "Bearish", "Strong Bearish"}
SentimentLabels == {"Very Positive", "Positive", "Neutral", "Negative", "Very Negative"}

\* averages of ratings in {-1, 0, 1}
AnalystScores == {FInt(-1), Lit_0, Dec(625, 1000), Lit_1}

TechnicalScores ==
  {DictOf(r) : r \in [score : Opt({Dec(-35, 10), FInt(-2), Lit_0, Lit_2, Dec(35, 10)})]}

PriceChanges ==
  {DictOf(r) : r \in
     [price_change_1d : Opt({FInt(-3), FInt(-2), Lit_2, FInt(3)}),
      price_change_5d : Opt({FInt(-6), FInt(-5), Lit_5, FInt(6)})]}

InitRecommendation ==
  /\ pc = "call"
  /\ args \in [momentum : MomentumLabels \cup {"Unknown"},
               sentiment : SentimentLabels \cup {"Unknown"},
               analyst_score : AnalystScores,
               technical_score : TechnicalScores,
               price_changes : PriceChanges]
  /\ result = None

GenerateRecommendation ==
  /\ pc = "call"
  /\ result' = generate_recommendation(args.momentum, args.sentiment, args.analyst_score,
                                       args.technical_score, args.price_changes)
  /\ pc' = "return"
  /\ UNCHANGED args

NextRecommendation == GenerateRecommendation

SpecRecommendation == InitRecommendation /\ [][NextRecommendation]_vars

----------------------------------------------------------------------------
(* analyze_portfolio *)

\* analyst_data.get(ticker, {'consensus': 'Hold', 'score': 0})
DefaultAnalyst_buy == [consensus |-> "Buy", score |-> Lit_1]

DefaultAnalyst == [consensus |-> "Hold", score |-> Lit_0]

price_changes_of(stock_info) ==
  [price_change_1d |-> Get(stock_info, "price_change_1d", Lit_0),
   price_change_5d |-> Get(stock_info, "price_change_5d", Lit_0),
   price_change_1m |-> Get(stock_info, "price_change_1m", Lit_0),
   price_change_3m |-> Get(stock_info, "price_change_3m", Lit_0),
   price_change_6m |-> Get(stock_info, "price_change_6m", Lit_0),
   price_change_1y |-> Get(stock_info, "price_change_1y", Lit_0)]

\* the entry analysis_results[ticker]
AnalysisResult(stock_info, headlines, analyst_info, momentum, sentiment_analysis, technical_analysis, price_changes) ==
  [current_price      |-> stock_info["current_price"],
   ma50               |-> stock_info["ma50"],
   ma200              |-> stock_info["ma200"],
   ma20               |-> Get(stock_info, "ma20", stock_info["current_price"]),
   momentum           |-> momentum,
   sentiment_score    |-> sentiment_analysis.compound_score,
   sentiment          |-> sentiment_analysis.sentiment,
   analyst_consensus  |-> analyst_info.consensus,
   analyst_score      |-> analyst_info.score,
   recommendation     |-> generate_recommendation(momentum, sentiment_analysis.sentiment,
                                                  analyst_info.score, technical_analysis,
                                                  price_changes),
   technical_analysis |-> technical_analysis,
   price_changes      |-> price_changes,
   headlines          |-> headlines,
   company_name       |-> stock_info["company_name"],
   rsi                |-> Get(stock_info, "rsi", Lit_50),
   volatility         |-> Get(stock_info, "volatility", Lit_0),
   volume             |-> Get(stock_info, "volume", Lit_0),
   avg_volume         |-> Get(stock_info, "avg_volume", Lit_0)]

\* the keys the loop body reads with stock_info[...]
SubscriptedKeys == {"ma50", "ma200", "current_price", "company_name"}

\* one pass of the loop body: the entry of the ticker, or the KeyError of a
\* stock_info[...] whose key is missing
AnalyzeTicker(stock_info, headlines, analyst_info) ==
  IF ~(SubscriptedKeys \subseteq DOMAIN stock_info) THEN KeyError
  ELSE AnalysisResult(stock_info, headlines, analyst_info,
                      calculate_momentum_signal(stock_info["ma50"],
                                                stock_info["ma200"],
                                                stock_info["current_price"],
                                                Get(stock_info, "rsi", Lit_50),
                                                Get(stock_info, "volatility", Lit_0)),
                      analyze_sentiment(headlines),
                      calculate_technical_score(stock_info),
                      price_changes_of(stock_info))

\* the exception of the first pass that raises leaves the function
ResultsOrRaise(analysis_results) ==
  IF \E ticker \in DOMAIN analysis_results : analysis_results[ticker] = KeyError
  THEN KeyError
  ELSE analysis_results

analyze_portfolio(stock_data, news_data, analyst_data) ==
  ResultsOrRaise([ticker \in DOMAIN stock_data |->
                    AnalyzeTicker(stock_data[ticker],
                                  Get(news_data, ticker, <<>>),
                                  Get(analyst_data, ticker, DefaultAnalyst))])

\* the dicts with keys among Keys and values among Values
DictsOver(Keys, Values) == UNION {[K -> Values] : K \in SUBSET Keys}

Tickers == {"AAPL", "MSFT"}

\* a year of history, rising
SnapshotRising ==
  [current_price |-> FInt(150), ma20 |-> FInt(148), ma50 |-> FInt(145), ma200 |-> FInt(140),
   rsi |-> FInt(25), volatility |-> Dec(3, 100), volume |-> FInt(100), avg_volume |-> Lit_50,
   price_change_1d |-> FInt(3), price_change_5d |-> FInt(6), company_name |-> "Rising Inc."]

\* a year of history, falling
SnapshotFalling ==
  [current_price |-> FInt(80), ma20 |-> FInt(85), ma50 |-> FInt(90), ma200 |-> FInt(100),
   rsi |-> FInt(75), volatility |-> Dec(6, 100), volume |-> FInt(20), avg_volume |-> Lit_50,
   price_change_1d |-> FInt(-3), price_change_5d |-> FInt(-6), company_name |-> "Falling Inc."]

\* thirty days of history: the rolling means over 50 and 200 days are NaN
SnapshotShortHistory ==
  [current_price |-> FInt(100), ma20 |-> FInt(98), ma50 |-> NaN, ma200 |-> NaN,
   rsi |-> Lit_50, volatility |-> Dec(3, 100), volume |-> FInt(60), avg_volume |-> Lit_50,
   price_change_1d |-> Lit_1, price_change_5d |-> Lit_2, company_name |-> "Recent Inc."]

\* no 200-day average
SnapshotNoMa200 ==
  [current_price |-> FInt(100), ma20 |-> FInt(98), ma50 |-> FInt(95), rsi |-> Lit_50,
   company_name |-> "Y"]

\* averages pointing up under an overbought, falling, thinly traded price
SnapshotOverbought ==
  [current_price |-> FInt(120), ma20 |-> FInt(125), ma50 |-> FInt(110), ma200 |-> FInt(100),
   rsi |-> FInt(75), volatility |-> Dec(3, 100), volume |-> FInt(20), avg_volume |-> Lit_50,
   price_change_1d |-> FInt(-3), price_change_5d |-> FInt(-6), company_name |-> "Overbought Inc."]

\* averages pointing down over an oversold, rising, heavily traded price
SnapshotOversold ==
  [current_price |-> FInt(80), ma20 |-> FInt(75), ma50 |-> FInt(90), ma200 |-> FInt(100),
   rsi |-> FInt(25), volatility |-> Dec(6, 100), volume |-> FInt(100), avg_volume |-> Lit_50,
   price_change_1d |-> FInt(3), price_change_5d |-> FInt(6), company_name |-> "Oversold Inc."]

PortfolioSnapshots ==
  {SnapshotRising, SnapshotFalling, SnapshotShortHistory, SnapshotMinimal, SnapshotNoMa200,
   SnapshotOverbought, SnapshotOversold}

PortfolioNews ==
  {<<Headline("gains")>>, <<Headline("crash"), Headline("falls")>>, <<Headline("soars")>>}

PortfolioAnalysts ==
  {[consensus |-> "Hold", score |-> Lit_0, count |-> 0],
   [consensus |-> "Buy", score |-> Lit_1, count |-> 2],
   [consensus |-> "Sell", score |-> FInt(-1), count |-> 1]}

Init ==
  /\ pc = "call"
  /\ args \in [stock_data : DictsOver(Tickers, PortfolioSnapshots),
               news_data : DictsOver(Tickers, PortfolioNews),
               analyst_data : DictsOver(Tickers, PortfolioAnalysts)]
  /\ result = None

AnalyzePortfolio ==
  /\ pc = "call"
  /\ result' = analyze_portfolio(args.stock_data, args.news_data, args.analyst_data)
  /\ pc' = IF result' = KeyError THEN "raise" ELSE "return"
  /\ UNCHANGED args

Next == AnalyzePortfolio

Spec == Init /\ [][Next]_vars

----------------------------------------------------------------------------
(* calculate_portfolio_metrics.  The function reads analysis_results only  *)
(* through its truth value, len() and values(): the argument is modelled   *)
(* as the sequence of its values in insertion order (the dict {} is <<>>). *)

\* list.count(x)
Count(xs, x) == Cardinality({i \in DOMAIN xs : xs[i] = x})

\* a dict without keys
EmptyDict == [key \in {} |-> key]

RecommendationCounts_sell(recommendations) ==
  [strong_buy_recommendations  |-> Count(recommendations, "Strong Buy"),
   buy_recommendations         |-> Count(recommendations, "Buy"),
   hold_recommendations        |-> Count(recommendations, "Hold"),
   sell_recommendations        |-> Count(recommendations, "Sell"),
   strong_sell_recommendations |-> Count(recommendations, "Strong Sell")]

RecommendationCounts(recommendations) ==
  [strong_buy_recommendations  |-> Count(recommendations, "Strong Buy"),
   buy_recommendations         |-> Count(recommendations, "Buy"),
   hold_recommendations        |-> Count(recommendations, "Hold"),
   sell_recommendations        |-> Count(recommendations, "Consider Selling"),
   strong_sell_recommendations |-> Count(recommendations, "Strong Sell")]

\* np.mean(sentiment_scores) if sentiment_scores else 0
avg_sentiment(scores) ==
  IF scores = <<>> THEN Lit_0 ELSE np_mean(scores)

MomentumCounts(momentum_signals) ==
  [strong_bullish_momentum |-> Count(momentum_signals, "Strong Bullish"),
   bullish_momentum        |-> Count(momentum_signals, "Bullish"),
   neutral_momentum        |-> Count(momentum_signals, "Neutral"),
   bearish_momentum        |-> Count(momentum_signals, "Bearish"),
   strong_bearish_momentum |-> Count(momentum_signals, "Strong Bearish")]

TrendCounts(technical_trends) ==
  [uptrend_count   |-> Count(technical_trends, "Uptrend"),
   downtrend_count |-> Count(technical_trends, "Downtrend"),
   sideways_count  |-> Count(technical_trends, "Sideways")]

\* the metrics of a non-empty analysis_results
MetricsOf(values) ==
  [total_stocks |-> Len(values)]
  @@ RecommendationCounts([i \in DOMAIN values |-> values[i].recommendation.action])
  @@ [avg_sentiment |-> avg_sentiment([i \in DOMAIN values |-> values[i].sentiment_score])]
  @@ MomentumCounts([i \in DOMAIN values |-> values[i].momentum])
  @@ TrendCounts([i \in DOMAIN values |-> values[i].technical_analysis.trend])

calculate_portfolio_metrics_unguarded(values) == MetricsOf(values)

calculate_portfolio_metrics(values) ==
  IF values = <<>> THEN EmptyDict ELSE MetricsOf(values)

MaxStocks == 3

\* thirty days of history on a quiet day: the technical score is 0
SnapshotQuiet == [SnapshotShortHistory EXCEPT !.volume = FInt(20)]

\* the data of the tickers of a portfolio
MetricsCases ==
  {[stock_info |-> SnapshotRising, headlines |-> <<Headline("gains")>>,
    analyst_info |-> [consensus |-> "Buy", score |-> Lit_1, count |-> 2]],
   [stock_info |-> SnapshotRising, headlines |-> <<>>, analyst_info |-> DefaultAnalyst],
   [stock_info |-> SnapshotShortHistory, headlines |-> <<Headline("gains")>>,
    analyst_info |-> [consensus |-> "Buy", score |-> Lit_1, count |-> 2]],
   [stock_info |-> SnapshotShortHistory, headlines |-> <<>>, analyst_info |-> DefaultAnalyst],
   [stock_info |-> SnapshotQuiet, headlines |-> <<Headline("dips")>>,
    analyst_info |-> DefaultAnalyst],
   [stock_info |-> SnapshotFalling, headlines |-> <<>>, analyst_info |-> DefaultAnalyst],
   [stock_info |-> SnapshotFalling, headlines |-> <<Headline("crash"), Headline("falls")>>,
    analyst_info |-> [consensus |-> "Hold", score |-> Lit_0, count |-> 0]]}

\* entries as analyze_portfolio builds them
MetricsResults ==
  {AnalyzeTicker(c.stock_info, c.headlines, c.analyst_info) : c \in MetricsCases}

InitMetrics ==
  /\ pc = "call"
  /\ args \in {[analysis_results |-> values] : values \in SeqsUpTo(MetricsResults, MaxStocks)}
  /\ result = None

CalculatePortfolioMetrics ==
  /\ pc = "call"
  /\ result' = calculate_portfolio_metrics(args.analysis_results)
  /\ pc' = "return"
  /\ UNCHANGED args

NextMetrics == CalculatePortfolioMetrics

SpecMetrics == InitMetrics /\ [][NextMetrics]_vars

----------------------------------------------------------------------------
(* fetch_analyst_recommendations (src/data_fetch.py).  The page request    *)
(* and its parsing are outside the repository: a call is given whether the *)
(* request or the parsing raises, and the texts of the table cells that    *)
(* soup.find_all returns (those matching Buy, Hold, Sell, Overweight or    *)
(* Underweight anywhere in the text, in any case).                         *)

CellTexts == {"Buy", "OVERWEIGHT", "Hold", "Sell", "underweight", "Strong Buy"}

\* text.lower()
lower(text) ==
  CASE text = "Buy"         -> "buy"
    [] text = "OVERWEIGHT"  -> "overweight"
    [] text = "Hold"        -> "hold"
    [] text = "Sell"        -> "sell"
    [] text = "underweight" -> "underweight"
    [] text = "Strong Buy"  -> "strong buy"

\* the loop over rec_elements: the ratings appended for the texts from i on
RECURSIVE RatingsFrom(_, _)
RatingsFrom(texts, i) ==
  IF i > Len(texts) THEN <<>>
  ELSE (IF lower(texts[i]) \in {"buy", "overweight"} THEN <<1>>
        ELSE IF lower(texts[i]) \in {"hold", "neutral"} THEN <<0>>
        ELSE IF lower(texts[i]) \in {"sell", "underweight"} THEN <<-1>>
        ELSE <<>>)
       \o RatingsFrom(texts, i + 1)

\* sum(recommendations)
RECURSIVE SumFrom(_, _)
SumFrom(xs, i) == IF i > Len(xs) THEN 0 ELSE xs[i] + SumFrom(xs, i + 1)

AnalystConsensus_inclusive(avg_recommendation) ==
  IF FGe(avg_recommendation, Lit_0_3) THEN "Buy"
  ELSE IF FLe(avg_recommendation, FNeg(Lit_0_3)) THEN "Sell"
  ELSE "Hold"

AnalystConsensus(avg_recommendation) ==
  IF FGt(avg_recommendation, Lit_0_3) THEN "Buy"
  ELSE IF FLt(avg_recommendation, FNeg(Lit_0_3)) THEN "Sell"
  ELSE "Hold"

\* the neutral recommendation of the fallback and of the except clause
NeutralRecommendation == [consensus |-> "Hold", score |-> Lit_0, count |-> 0]

RatedRecommendation(avg_recommendation, count) ==
  [consensus |-> AnalystConsensus(avg_recommendation),
   score     |-> avg_recommendation,
   count     |-> count]

ConsensusOf(recommendations) ==
  IF recommendations # <<>>
  THEN RatedRecommendation(FDivInt(FInt(SumFrom(recommendations, 1)), Len(recommendations)),
                           Len(recommendations))
  ELSE NeutralRecommendation

fetch_analyst_recommendations(raises, rec_elements) ==
  IF raises THEN NeutralRecommendation
  ELSE ConsensusOf(RatingsFrom(rec_elements, 1))

MaxCells == 3

\* pages with ten ratings, three of them on one side
TenRatings ==
  {<<"Buy", "Buy", "Buy", "Hold", "Hold", "Hold", "Hold", "Hold", "Hold", "Hold">>,
   <<"Sell", "Hold", "Sell", "Hold", "Sell", "Hold", "Hold", "Hold", "Hold", "Hold">>}

InitAnalyst ==
  /\ pc = "call"
  /\ args \in {[ticker |-> t, raises |-> FALSE, rec_elements |-> cells] :
                  t \in Tickers, cells \in SeqsUpTo(CellTexts, MaxCells) \cup TenRatings}
               \cup {[ticker |-> t, raises |-> TRUE, rec_elements |-> <<>>] : t \in Tickers}
  /\ result = None

FetchAnalystRecommendations ==
  /\ pc = "call"
  /\ result' = fetch_analyst_recommendations(args.raises, args.rec_elements)
  /\ pc' = "return"
  /\ UNCHANGED args

NextAnalyst == FetchAnalystRecommendations

SpecAnalyst == InitAnalyst /\ [][NextAnalyst]_vars

----------------------------------------------------------------------------
(* Two calls of generate_recommendation, one after the other: args is the  *)
(* sequence of the argument tuples, result the sequence of what the calls  *)
(* made so far returned.                                                   *)

RecommendationGrid ==
  [momentum        : {"Bearish", "Neutral", "Strong Bullish"},
   sentiment       : {"Very Negative", "Neutral"},
   analyst_score   : {FInt(-1), Dec(625, 1000)},
   technical_score : {[score |-> Dec(-35, 10)], EmptyDict, [score |-> Dec(35, 10)]},
   price_changes   : {[price_change_1d |-> FInt(-3), price_change_5d |-> FInt(-6)],
                      [price_change_1d |-> Lit_2, price_change_5d |-> Lit_5],
                      [price_change_1d |-> FInt(3), price_change_5d |-> FInt(6)]}]

InitRecommendationCalls ==
  /\ pc = "call"
  /\ args \in {<<a, b>> : a \in RecommendationGrid, b \in RecommendationGrid}
  /\ result = <<>>

\* the next call of the sequence
GenerateRecommendationCall ==
  /\ pc = "call"
  /\ LET next == args[Len(result) + 1]
     IN  result' = Append(result,
                          generate_recommendation(next.momentum, next.sentiment,
                                                  next.analyst_score, next.technical_score,
                                                  next.price_changes))
  /\ pc' = IF Len(result') = Len(args) THEN "return" ELSE "call"
  /\ UNCHANGED args

NextRecommendationCalls == GenerateRecommendationCall

SpecRecommendationCalls == InitRecommendationCalls /\ [][NextRecommendationCalls]_vars

----------------------------------------------------------------------------
(* The portfolio input of the sidebar (main of src/app.py).  Every click   *)
(* reruns the script with one button pressed; between runs only            *)
(* st.session_state lasts.  Here pc is "idle" (the script waits for a      *)
(* click), args is the click of the last run and result is                 *)
(* st.session_state.  A ticker is the sequence of its characters.          *)

popular_stocks ==
  {<<"A", "A", "P", "L">>, <<"M", "S", "F", "T">>, <<"G", "O", "O", "G", "L">>,
   <<"A", "M", "Z", "N">>, <<"T", "S", "L", "A">>, <<"N", "V", "D", "A">>,
   <<"M", "E", "T", "A">>, <<"N", "F", "L", "X">>, <<"J", "P", "M">>, <<"J", "N", "J">>}

\* str.upper of a lower-case letter
UpperOf ==
  [a |-> "A", b |-> "B", c |-> "C", d |-> "D", e |-> "E", f |-> "F", g |-> "G",
   h |-> "H", i |-> "I", j |-> "J", k |-> "K", l |-> "L", m |-> "M", n |-> "N",
   o |-> "O", p |-> "P", q |-> "Q", r |-> "R", s |-> "S", t |-> "T", u |-> "U",
   v |-> "V", w |-> "W", x |-> "X", y |-> "Y", z |-> "Z"]

Letters == DOMAIN UpperOf \cup {UpperOf[c] : c \in DOMAIN UpperOf}

\* str.strip(): leading and trailing blanks removed
RECURSIVE strip(_)
strip(text) ==
  IF text = <<>> THEN text
  ELSE IF Head(text) = " " THEN strip(Tail(text))
  ELSE IF text[Len(text)] = " " THEN strip(SubSeq(text, 1, Len(text) - 1))
  ELSE text

\* str.upper()
upper(text) ==
  [i \in 1..Len(text) |-> IF text[i] \in DOMAIN UpperOf THEN UpperOf[text[i]] ELSE text[i]]

\* str.isalpha(): not empty and letters only
isalpha(text) == text # <<>> /\ \A i \in 1..Len(text) : text[i] \in Letters

\* stock in st.session_state.stocks
InStocks(stocks, stock) == \E i \in 1..Len(stocks) : stocks[i] = stock

\* the quick-add button of a popular stock
QuickAddUnchecked(stocks, stock) == Append(stocks, stock)

QuickAdd(stocks, stock) ==
  IF ~InStocks(stocks, stock) THEN Append(stocks, stock) ELSE stocks

\* the Add Stock button, new_stock being the stripped, upper-cased text
AddStock(stocks, new_stock) ==
  IF new_stock # <<>>
  THEN IF ~InStocks(stocks, new_stock)
       THEN IF Len(new_stock) <= 5 /\ isalpha(new_stock)
            THEN Append(stocks, new_stock)
            ELSE stocks
       ELSE stocks
  ELSE stocks

\* st.session_state.stocks.pop(i), i counted from 0
Pop(stocks, i) == SubSeq(stocks, 1, i) \o SubSeq(stocks, i + 2, Len(stocks))

MaxPortfolio == 3

\* what a user types into the ticker field
TypedTexts ==
  {<<>>, <<" ">>, <<"a", "a", "p", "l">>, <<" ", "m", "s", "f", "t", " ">>,
   <<"T", "S", "L", "A">>, <<"f">>, <<"B", "R", "K", ".", "B">>,
   <<"g", "o", "o", "g", "l", "e">>, <<"n", "v", "d", "a", "1">>}

InitSession ==
  /\ pc = "idle"
  /\ args = [button |-> "none"]
  /\ result = [stocks |-> <<>>]

ClickQuickAdd ==
  /\ pc = "idle"
  /\ \E stock \in popular_stocks :
       /\ args' = [button |-> "quick", stock |-> stock]
       /\ result' = [result EXCEPT !.stocks = QuickAdd(@, stock)]
  /\ Len(result'.stocks) <= MaxPortfolio
  /\ UNCHANGED pc

ClickAddStock ==
  /\ pc = "idle"
  /\ \E text \in TypedTexts :
       /\ args' = [button |-> "add", text |-> text]
       /\ result' = [result EXCEPT !.stocks = AddStock(@, upper(strip(text)))]
  /\ Len(result'.stocks) <= MaxPortfolio
  /\ UNCHANGED pc

ClickClearAll ==
  /\ pc = "idle"
  /\ args' = [button |-> "clear"]
  /\ result' = [result EXCEPT !.stocks = <<>>]
  /\ UNCHANGED pc

ClickRemove ==
  /\ pc = "idle"
  /\ \E i \in 0..(Len(result.stocks) - 1) :
       /\ args' = [button |-> "remove", i |-> i]
       /\ result' = [result EXCEPT !.stocks = Pop(@, i)]
  /\ UNCHANGED pc

NextSession == ClickQuickAdd \/ ClickAddStock \/ ClickClearAll \/ ClickRemove

SpecSession == InitSession /\ [][NextSession]_vars

----------------------------------------------------------------------------
(* fetch_stock_data, statement by statement.  pc is the position in the    *)
(* loop body, args the call's argument and result the frame of the call:   *)
(* the mapping it builds, the loop index i (from 0), the normalised        *)
(* ticker, hist, and the retrievals attempted for this ticker so far.      *)
(* What the data service answers is chosen at each retrieval: it raises,   *)
(* returns an empty history or returns a history with rows.                *)

MaxTickers == 2

RawTickers == {<<"a", "a", "p", "l">>, <<"A", "A", "P", "L">>, <<" ", "M", "S", "F", "T">>}

Outcomes == {"raise", "empty", "data"}

\* an empty DataFrame, and the DataFrame method m returned
EmptyHistory == [empty |-> TRUE]
History(m) == [empty |-> FALSE, method |-> m]

\* hist is None or hist.empty
NoHistory(hist) == hist = None \/ hist.empty

\* one try block of the chain: the retrieval is logged; hist is assigned
\* unless the retrieval raised
Retrieve(frame, m, outcome) ==
  [frame EXCEPT
     !.attempts = Append(@, [method |-> m, outcome |-> outcome]),
     !.hist = IF outcome = "raise" THEN @
              ELSE IF outcome = "empty" THEN EmptyHistory ELSE History(m)]

\* a later block of the chain, behind its guard
RetrieveIfMissing_unguarded(frame, m, outcome) == Retrieve(frame, m, outcome)

RetrieveIfMissing(frame, m, outcome) ==
  IF NoHistory(frame.hist) THEN Retrieve(frame, m, outcome) ELSE frame

\* continue: on to the next ticker
Continue(frame) == [frame EXCEPT !.i = @ + 1]

\* stock_data[ticker] = {...}
Store(stock_data, ticker, hist) ==
  [key \in DOMAIN stock_data \cup {ticker} |->
     IF key = ticker THEN [historical_data |-> hist] ELSE stock_data[key]]

InitFetch ==
  /\ pc = "for"
  /\ args \in [tickers : SeqsUpTo(RawTickers, MaxTickers)]
  /\ result = [stock_data |-> EmptyDict, i |-> 0, ticker |-> <<>>, hist |-> None, attempts |-> <<>>]

\* for ticker in tickers: normalise, create the ticker object (which may
\* raise), hist = None
ForTicker ==
  /\ pc = "for"
  /\ result.i < Len(args.tickers)
  /\ \E raises \in BOOLEAN :
       LET ticker == upper(strip(args.tickers[result.i + 1]))
       IN  IF raises
           THEN /\ pc' = "for"
                /\ result' = Continue([result EXCEPT !.ticker = ticker, !.attempts = <<>>])
           ELSE /\ pc' = "method1"
                /\ result' = [result EXCEPT !.ticker = ticker, !.hist = None, !.attempts = <<>>]
  /\ UNCHANGED args

Method1 ==
  /\ pc = "method1"
  /\ \E outcome \in Outcomes : result' = Retrieve(result, 1, outcome)
  /\ pc' = "method2"
  /\ UNCHANGED args

Method2 ==
  /\ pc = "method2"
  /\ \E outcome \in Outcomes : result' = RetrieveIfMissing(result, 2, outcome)
  /\ pc' = "method3"
  /\ UNCHANGED args

Method3 ==
  /\ pc = "method3"
  /\ \E outcome \in Outcomes : result' = RetrieveIfMissing(result, 3, outcome)
  /\ pc' = "method4"
  /\ UNCHANGED args

Method4 ==
  /\ pc = "method4"
  /\ \E outcome \in Outcomes : result' = RetrieveIfMissing(result, 4, outcome)
  /\ pc' = "check"
  /\ UNCHANGED args

\* if hist is None or hist.empty: continue
AllMethodsFailed ==
  /\ pc = "check"
  /\ IF NoHistory(result.hist)
     THEN /\ pc' = "for"
          /\ result' = Continue(result)
     ELSE /\ pc' = "store"
          /\ UNCHANGED result
  /\ UNCHANGED args

\* the indicators and the entry of the mapping; an exception in between is
\* caught by the outer handler, which continues
StoreSnapshot ==
  /\ pc = "store"
  /\ \E raises \in BOOLEAN :
       result' = IF raises THEN Continue(result)
                 ELSE Continue([result EXCEPT !.stock_data = Store(@, result.ticker, result.hist)])
  /\ pc' = "for"
  /\ UNCHANGED args

\* return stock_data
ReturnFetch ==
  /\ pc = "for"
  /\ result.i >= Len(args.tickers)
  /\ pc' = "return"
  /\ UNCHANGED <<args, result>>

NextFetch ==
  \/ ForTicker \/ Method1 \/ Method2 \/ Method3 \/ Method4
  \/ AllMethodsFailed \/ StoreSnapshot \/ ReturnFetch

\* the statements of one call run one after the other without waiting
SpecFetch == InitFetch /\ [][NextFetch]_vars /\ WF_vars(NextFetch)

----------------------------------------------------------------------------
(* Claims about generate_recommendation, under SpecRecommendation.         *)

\* C1: for every momentum and sentiment label of the five-valued enums
\* (mapped to M, S in -2..2), every analyst score A, technical score T and
\* price score P, the returned score equals
\* 0.25*M + 0.20*S + 0.20*A + 0.25*T + 0.10*P (in the floats of the program).
C1_ScoreIsWeightedSum ==
  (pc = "return" /\ args.momentum \in MomentumLabels /\ args.sentiment \in SentimentLabels) =>
    LET M == CASE args.momentum = "Strong Bullish" -> 2
               [] args.momentum = "Bullish" -> 1
               [] args.momentum = "Neutral" -> 0
               [] args.momentum = "Bearish" -> -1
               [] args.momentum = "Strong Bearish" -> -2
        S == CASE args.sentiment = "Very Positive" -> 2
               [] args.sentiment = "Positive" -> 1
               [] args.sentiment = "Neutral" -> 0
               [] args.sentiment = "Negative" -> -1
               [] args.sentiment = "Very Negative" -> -2
        A == args.analyst_score
        T == Get(args.technical_score, "score", Lit_0)
        P == price_score_of(args.price_changes)
    IN  FEq(result.score,
            FAdd(FAdd(FAdd(FAdd(FMul(Lit_0_25, FInt(M)), FMul(Lit_0_2, FInt(S))),
                           FMul(Lit_0_2, A)),
                      FMul(Lit_0_25, T)),
                 FMul(Lit_0_1, P)))

\* a call in which all five components are non-zero
C1_Witness ==
  /\ pc = "return"
  /\ args.momentum = "Bearish"
  /\ args.sentiment = "Very Positive"
  /\ args.analyst_score = Dec(625, 1000)
  /\ Has(args.technical_score, "score") /\ args.technical_score["score"] = Dec(35, 10)
  /\ Has(args.price_changes, "price_change_1d")
  /\ args.price_changes["price_change_1d"] = FInt(3)
  /\ ~IsZero(result.score)

\* C2: for every total score exactly one band applies, evaluated high to low:
\* total > 1.5 Strong Buy/High; else > 0.5 Buy/Medium; else > -0.5 Hold/Medium;
\* else > -1.5 Consider Selling/Medium; otherwise Strong Sell/High.  Confidence
\* is High exactly when the action is Strong Buy or Strong Sell.
C2_FiveBands ==
  pc = "return" =>
    LET t == result.score
        Band(applies, action, confidence) ==
          IF applies THEN {<<action, confidence>>} ELSE {}
        bands ==
          Band(FGt(t, Lit_1_5), "Strong Buy", "High")
          \cup Band(FGt(t, Lit_0_5) /\ FLe(t, Lit_1_5), "Buy", "Medium")
          \cup Band(FGt(t, FNeg(Lit_0_5)) /\ FLe(t, Lit_0_5), "Hold", "Medium")
          \cup Band(FGt(t, FNeg(Lit_1_5)) /\ FLe(t, FNeg(Lit_0_5)),
                    "Consider Selling", "Medium")
          \cup Band(FLe(t, FNeg(Lit_1_5)), "Strong Sell", "High")
    IN  /\ bands = {<<result.action, result.confidence>>}
        /\ (result.confidence = "High") <=> (result.action \in {"Strong Buy", "Strong Sell"})

\* a total of exactly -1.5, the edge of the lowest band
C2_Witness ==
  pc = "return" /\ FEq(result.score, FNeg(Lit_1_5)) /\ result.action = "Strong Sell"

\* C3 as stated: when the weighted total is exactly 1.5, the action is Hold
\* (not Strong Buy).
C3_Original_ExactlyOneAndAHalfIsHold ==
  (pc = "return" /\ FEq(result.score, Lit_1_5)) => result.action = "Hold"

\* C3 as amended: when the weighted total is exactly 1.5, the action is Buy
\* (not Strong Buy).
C3_ExactlyOneAndAHalfIsBuy ==
  (pc = "return" /\ FEq(result.score, Lit_1_5)) =>
    (result.action = "Buy" /\ result.confidence = "Medium")

C3_Witness ==
  /\ pc = "return"
  /\ FEq(result.score, Lit_1_5)
  /\ args.momentum = "Strong Bullish"
  /\ args.analyst_score = Dec(625, 1000)

\* C4: when the weighted total is exactly 0.5, the action is Hold (not Buy).
C4_ExactlyOneHalfIsHold ==
  (pc = "return" /\ FEq(result.score, Lit_0_5)) => result.action = "Hold"

C4_Witness ==
  /\ pc = "return"
  /\ FEq(result.score, Lit_0_5)
  /\ args.momentum = "Strong Bullish"
  /\ args.sentiment = "Neutral"

----------------------------------------------------------------------------
(* Claims about analyze_portfolio, under Spec.                             *)

\* C5 as stated: analyze_portfolio raises no exception for a snapshot in which
\* ma50 and/or ma200 are absent: the analysis completes and the momentum of
\* the ticker is Neutral.
C5_MissingAveragesAnalyzeAsNeutral ==
  LET missing == {ticker \in DOMAIN args.stock_data :
                    ~Has(args.stock_data[ticker], "ma50")
                    \/ ~Has(args.stock_data[ticker], "ma200")}
  IN  (pc # "call" /\ missing # {}) =>
        /\ pc = "return"
        /\ \A ticker \in missing : result[ticker].momentum = "Neutral"

----------------------------------------------------------------------------
(* Claims about calculate_momentum_signal, under SpecMomentum.             *)

\* C6: whenever ma50 or ma200 is the unknown sentinel (NaN), the result is
\* Neutral for every value of current_price, rsi and volatility.
C6_UnknownAverageIsNeutral ==
  (pc = "return" /\ (IsNaN(args.ma50) \/ IsNaN(args.ma200))) => result = "Neutral"

\* only ma200 unknown, with every other input pointing up
C6_Witness ==
  /\ pc = "return"
  /\ IsNaN(args.ma200) /\ ~IsNaN(args.ma50)
  /\ FGt(args.current_price, args.ma50)
  /\ args.rsi = FInt(25)
  /\ args.volatility = Dec(6, 100)

\* C7: when ma50 and ma200 are known, the label is the five-way thresholding
\* (> 0.3 Strong Bullish; > 0.1 Bullish; < -0.3 Strong Bearish; < -0.1
\* Bearish; else Neutral) of the score (+0.4 if ma50 > ma200 else -0.4)
\* + (+0.3 if current_price > ma50 else -0.3) + (+0.3 if rsi < 30, -0.3 if
\* rsi > 70, else 0), the sum taken in the floats of the program.
C7_LabelIsThresholdedScore ==
  (pc = "return" /\ ~IsNaN(args.ma50) /\ ~IsNaN(args.ma200)) =>
    LET ma    == IF FGt(args.ma50, args.ma200) THEN Lit_0_4 ELSE FNeg(Lit_0_4)
        price == IF FGt(args.current_price, args.ma50) THEN Lit_0_3 ELSE FNeg(Lit_0_3)
        rsi   == IF FLt(args.rsi, Lit_30) THEN Lit_0_3
                 ELSE IF FGt(args.rsi, Lit_70) THEN FNeg(Lit_0_3)
                 ELSE Lit_0
        score == FAdd(FAdd(ma, price), rsi)
    IN  result = CASE FGt(score, Lit_0_3)       -> "Strong Bullish"
                   [] ~FGt(score, Lit_0_3) /\ FGt(score, Lit_0_1) -> "Bullish"
                   [] FLt(score, FNeg(Lit_0_3)) -> "Strong Bearish"
                   [] ~FLt(score, FNeg(Lit_0_3)) /\ FLt(score, FNeg(Lit_0_1)) -> "Bearish"
                   [] OTHER                     -> "Neutral"

\* known averages pointing down, price above ma50, rsi in the middle
C7_Witness ==
  /\ pc = "return"
  /\ ~IsNaN(args.ma50) /\ ~IsNaN(args.ma200)
  /\ FLt(args.ma50, args.ma200)
  /\ FGt(args.current_price, args.ma50)
  /\ args.rsi = Lit_50
  /\ result \in MomentumLabels

----------------------------------------------------------------------------
(* Claims about analyze_sentiment, under SpecSentiment.                    *)

\* C8: for a non-empty headline list the sentiment label is determined by the
\* mean compound value with strict thresholds: > 0.20 Very Positive; > 0.05
\* Positive; < -0.20 Very Negative; < -0.05 Negative; else Neutral.  A mean of
\* exactly 0.20 is Positive, exactly -0.20 is Negative, and exactly 0.05 or
\* -0.05 is Neutral.
C8_SentimentThresholds ==
  (pc = "return" /\ args.headlines # <<>>) =>
    LET mean == np_mean([i \in 1..Len(args.headlines) |->
                           polarity_scores(args.headlines[i].title).compound])
        label == result.sentiment
    IN  /\ FGt(mean, Lit_0_2) => label = "Very Positive"
        /\ (FGt(mean, Lit_0_05) /\ FLe(mean, Lit_0_2)) => label = "Positive"
        /\ FLt(mean, FNeg(Lit_0_2)) => label = "Very Negative"
        /\ (FLt(mean, FNeg(Lit_0_05)) /\ FGe(mean, FNeg(Lit_0_2))) => label = "Negative"
        /\ (FGe(mean, FNeg(Lit_0_05)) /\ FLe(mean, Lit_0_05)) => label = "Neutral"
        /\ FEq(mean, Lit_0_2) => label = "Positive"
        /\ FEq(mean, FNeg(Lit_0_2)) => label = "Negative"
        /\ (FEq(mean, Lit_0_05) \/ FEq(mean, FNeg(Lit_0_05))) => label = "Neutral"

\* two headlines whose mean compound value is exactly 0.20
C8_Witness ==
  /\ pc = "return"
  /\ Len(args.headlines) = 2
  /\ FEq(result.compound_score, Lit_0_2)
  /\ result.sentiment = "Positive"

\* C9: for every empty headline list the result is exactly compound_score 0,
\* sentiment Neutral, positive_score 0, negative_score 0, neutral_score 0, and
\* no error is raised.
C9_EmptyHeadlines ==
  (pc # "call" /\ args.headlines = <<>>) =>
    /\ pc = "return"
    /\ DOMAIN result = {"compound_score", "sentiment", "positive_score",
                        "negative_score", "neutral_score"}
    /\ result.sentiment = "Neutral"
    /\ FEq(result.compound_score, FInt(0))
    /\ FEq(result.positive_score, FInt(0))
    /\ FEq(result.negative_score, FInt(0))
    /\ FEq(result.neutral_score, FInt(0))

C9_Witness == pc = "return" /\ args.headlines = <<>> /\ result # None

----------------------------------------------------------------------------
(* Claims about calculate_technical_score, under SpecTechnical.            *)

\* C10: for every snapshot the signals list is ordered RSI tag first, then
\* exactly one trend tag, then the volume tag if triggered, then the
\* volatility tag if triggered; no other order ever occurs.
C10_SignalOrder ==
  pc = "return" =>
    LET d          == args.stock_data
        volume     == Get(d, "volume", Lit_0)
        avg_volume == Get(d, "avg_volume", Lit_0)
        high       == FGt(volume, FMul(avg_volume, Lit_1_5))
        low        == ~high /\ FLt(volume, FMul(avg_volume, Lit_0_5))
        volatile   == FGt(Get(d, "volatility", Lit_0), Lit_0_05)
        tail       == (IF high THEN <<"High Volume">>
                       ELSE IF low THEN <<"Low Volume">> ELSE <<>>)
                      \o (IF volatile THEN <<"High Volatility">> ELSE <<>>)
    IN  /\ Len(result.signals) = 2 + Len(tail)
        /\ result.signals[1] \in {"RSI Oversold", "RSI Overbought", "RSI Neutral"}
        /\ result.signals[2] \in {"Strong Uptrend", "Uptrend", "Strong Downtrend",
                                  "Downtrend", "Mixed Signals"}
        /\ SubSeq(result.signals, 3, Len(result.signals)) = tail

\* a snapshot that triggers both the volume and the volatility tag
C10_Witness ==
  /\ pc = "return"
  /\ Len(result.signals) = 4
  /\ result.signals[3] = "Low Volume"
  /\ result.signals[4] = "High Volatility"

\* C11: the four trend cases are mutually exclusive and checked in order
\* (price > ma20 > ma50 > ma200: +2 Strong Uptrend; else price > ma20 and
\* ma20 > ma50: +1 Uptrend; else price < ma20 < ma50 < ma200: -2 Strong
\* Downtrend; else price < ma20 and ma20 < ma50: -1 Downtrend); in every other
\* case, including any equality between price and ma20 or between ma20 and
\* ma50, the tag is Mixed Signals and the score is unchanged.  A fully ordered
\* chain scores +2 or -2, never +3 or -3: exactly one trend tag is emitted.
C11_TrendRule ==
  pc = "return" =>
    LET d     == args.stock_data
        p     == d["current_price"]
        m20   == Get(d, "ma20", p)
        m50   == Get(d, "ma50", p)
        m200  == Get(d, "ma200", p)
        up    == FGt(p, m20) /\ FGt(m20, m50)
        down  == FLt(p, m20) /\ FLt(m20, m50)
        tag   == result.signals[2]
        rsi   == RsiAnalysis([score |-> Lit_0, signals |-> <<>>], Get(d, "rsi", Lit_50)).score
        Rest(score) ==
          VolatilityAnalysis(VolumeAnalysis([score |-> score, signals |-> <<>>],
                                            Get(d, "avg_volume", Lit_0),
                                            Get(d, "volume", Lit_0)),
                             Get(d, "volatility", Lit_0)).score
        trend_tags == {i \in DOMAIN result.signals :
                         result.signals[i] \in {"Strong Uptrend", "Uptrend", "Strong Downtrend",
                                                "Downtrend", "Mixed Signals"}}
    IN  /\ ~(up /\ down)
        /\ (up /\ FGt(m50, m200)) =>
             tag = "Strong Uptrend" /\ FEq(result.score, Rest(FAdd(rsi, FInt(2))))
        /\ (up /\ ~FGt(m50, m200)) =>
             tag = "Uptrend" /\ FEq(result.score, Rest(FAdd(rsi, FInt(1))))
        /\ (down /\ FLt(m50, m200)) =>
             tag = "Strong Downtrend" /\ FEq(result.score, Rest(FAdd(rsi, FInt(-2))))
        /\ (down /\ ~FLt(m50, m200)) =>
             tag = "Downtrend" /\ FEq(result.score, Rest(FAdd(rsi, FInt(-1))))
        /\ (~up /\ ~down) =>
             tag = "Mixed Signals" /\ FEq(result.score, Rest(rsi))
        /\ (FEq(p, m20) \/ FEq(m20, m50)) => tag = "Mixed Signals"
        /\ trend_tags = {2}

\* price equal to ma20 with ma20 > ma50 > ma200: Mixed Signals, not an uptrend
C11_Witness ==
  /\ pc = "return"
  /\ Has(args.stock_data, "ma20") /\ Has(args.stock_data, "ma50")
  /\ Has(args.stock_data, "ma200")
  /\ FEq(args.stock_data["current_price"], args.stock_data["ma20"])
  /\ FGt(args.stock_data["ma20"], args.stock_data["ma50"])
  /\ FGt(args.stock_data["ma50"], args.stock_data["ma200"])
  /\ result.signals[2] = "Mixed Signals"

----------------------------------------------------------------------------
(* Claims about calculate_portfolio_metrics, under SpecMetrics.            *)

\* C12: over N >= 1 analysis results whose actions were produced by
\* generate_recommendation, every count field is <= N and the five
\* recommendation-action counts (strong buy, buy, hold, sell, strong sell) sum
\* to exactly N.
C12_CountsSumToN ==
  (pc = "return" /\ Len(args.analysis_results) >= 1) =>
    LET N == Len(args.analysis_results)
        count_fields == DOMAIN result \ {"avg_sentiment"}
    IN  /\ {"total_stocks", "strong_buy_recommendations", "buy_recommendations",
             "hold_recommendations", "sell_recommendations",
             "strong_sell_recommendations", "strong_bullish_momentum",
             "bullish_momentum", "neutral_momentum", "bearish_momentum",
             "strong_bearish_momentum", "uptrend_count", "downtrend_count",
             "sideways_count"} = count_fields
        /\ \A field \in count_fields : result[field] \in 0..N
        /\ result.strong_buy_recommendations + result.buy_recommendations
             + result.hold_recommendations + result.sell_recommendations
             + result.strong_sell_recommendations = N

\* three results, among them a Consider Selling and a Strong Buy
C12_Witness ==
  /\ pc = "return"
  /\ Len(args.analysis_results) = 3
  /\ result.sell_recommendations = 1
  /\ result.strong_buy_recommendations = 1
  /\ result.hold_recommendations = 1

\* C13: over an empty result set calculate_portfolio_metrics returns an empty
\* mapping: no keys at all, no division by zero, no exception.
C13_EmptyResultsEmptyMetrics ==
  (pc # "call" /\ args.analysis_results = <<>>) =>
    pc = "return" /\ DOMAIN result = {}

C13_Witness == pc = "return" /\ args.analysis_results = <<>> /\ result = EmptyDict

----------------------------------------------------------------------------
(* Further claims about generate_recommendation, under SpecRecommendation. *)

\* C14: the 1-day and 5-day contributions to the price score are independent
\* and additive: +0.5 if price_change_1d > 2, -0.5 if < -2, else 0; plus +0.3
\* if price_change_5d > 5, -0.3 if < -5, else 0.  Changes of exactly 2, -2, 5
\* or -5 contribute 0, so the price score is always one of -0.8, -0.5, -0.3,
\* -0.2, 0, 0.2, 0.3, 0.5, 0.8; it enters the returned score with weight 0.1.
C14_PriceScoreAdditive ==
  pc = "return" =>
    LET change_1d == Get(args.price_changes, "price_change_1d", Lit_0)
        change_5d == Get(args.price_changes, "price_change_5d", Lit_0)
        part_1d   == IF FGt(change_1d, FInt(2)) THEN Dec(5, 10)
                     ELSE IF FLt(change_1d, FInt(-2)) THEN Dec(-5, 10)
                     ELSE FInt(0)
        part_5d   == IF FGt(change_5d, FInt(5)) THEN Dec(3, 10)
                     ELSE IF FLt(change_5d, FInt(-5)) THEN Dec(-3, 10)
                     ELSE FInt(0)
        price     == FAdd(part_1d, part_5d)
    IN  /\ (FEq(change_1d, FInt(2)) \/ FEq(change_1d, FInt(-2))) => IsZero(part_1d)
        /\ (FEq(change_5d, FInt(5)) \/ FEq(change_5d, FInt(-5))) => IsZero(part_5d)
        /\ \E tenths \in {-8, -5, -3, -2, 0, 2, 3, 5, 8} : FEq(price, Dec(tenths, 10))
        /\ FEq(result.score,
               WeightedTotal(momentum_scores(args.momentum), sentiment_scores(args.sentiment),
                             args.analyst_score, Get(args.technical_score, "score", Lit_0),
                             price))

\* a 5-day change of exactly 5 next to a 1-day change of 3: the price score is
\* 0.5 and moves the total
C14_Witness ==
  /\ pc = "return"
  /\ Has(args.price_changes, "price_change_1d") /\ Has(args.price_changes, "price_change_5d")
  /\ args.price_changes["price_change_1d"] = FInt(3)
  /\ args.price_changes["price_change_5d"] = Lit_5
  /\ args.momentum = "Neutral" /\ args.sentiment = "Neutral"
  /\ IsZero(args.analyst_score)
  /\ ~Has(args.technical_score, "score")
  /\ FEq(result.score, Dec(5, 100))

----------------------------------------------------------------------------
(* Further claims about analyze_portfolio, under Spec.                     *)

\* C15 (scenario A): for a snapshot with price 150, ma20 148, ma50 145, ma200
\* 140, rsi 25, volatility 0.03, volume 100, avg_volume 50 the momentum is
\* Strong Bullish (score 1.0) and the technical analysis has score 3.5, signals
\* [RSI Oversold, Strong Uptrend, High Volume] with no High Volatility tag, and
\* trend Uptrend.
C15_ScenarioA ==
  \A ticker \in DOMAIN args.stock_data :
    LET d == args.stock_data[ticker]
        Is(key, value) == Has(d, key) /\ FEq(d[key], value)
    IN  (/\ pc = "return"
         /\ Is("current_price", FInt(150)) /\ Is("ma20", FInt(148))
         /\ Is("ma50", FInt(145)) /\ Is("ma200", FInt(140))
         /\ Is("rsi", FInt(25)) /\ Is("volatility", Dec(3, 100))
         /\ Is("volume", FInt(100)) /\ Is("avg_volume", FInt(50)))
        => /\ result[ticker].momentum = "Strong Bullish"
           /\ FEq(momentum_score_of(d["ma50"], d["ma200"], d["current_price"], d["rsi"]),
                  FInt(1))
           /\ FEq(result[ticker].technical_analysis.score, Dec(35, 10))
           /\ result[ticker].technical_analysis.signals
                = <<"RSI Oversold", "Strong Uptrend", "High Volume">>
           /\ result[ticker].technical_analysis.trend = "Uptrend"

\* the snapshot of scenario A analysed as AAPL
C15_Witness ==
  /\ pc = "return"
  /\ "AAPL" \in DOMAIN args.stock_data
  /\ args.stock_data["AAPL"] = SnapshotRising
  /\ result["AAPL"].momentum = "Strong Bullish"
  /\ Len(result["AAPL"].technical_analysis.signals) = 3

----------------------------------------------------------------------------
(* Further claims about calculate_technical_score, under SpecTechnical.    *)

\* C16 (scenario B, technical part): for a snapshot containing only
\* current_price = 100 and company_name, calculate_technical_score applies the
\* defaults (rsi 50, ma20 = ma50 = ma200 = current_price, volume = avg_volume
\* = 0, volatility 0) and returns signals exactly [RSI Neutral, Mixed Signals],
\* score 0.5 and trend Uptrend; neither volume tag is emitted.
C16_ScenarioB ==
  (/\ pc # "call"
   /\ DOMAIN args.stock_data = {"current_price", "company_name"}
   /\ FEq(args.stock_data["current_price"], FInt(100)))
  => /\ pc = "return"
     /\ result.signals = <<"RSI Neutral", "Mixed Signals">>
     /\ FEq(result.score, Dec(5, 10))
     /\ result.trend = "Uptrend"
     /\ FEq(result.rsi, FInt(50))
     /\ \A i \in DOMAIN result.signals : result.signals[i] \notin {"High Volume", "Low Volume"}

\* the call on the snapshot of scenario B has returned
C16_Witness ==
  /\ pc = "return"
  /\ args.stock_data = [current_price |-> FInt(100), company_name |-> "X"]
  /\ Len(result.signals) = 2

----------------------------------------------------------------------------
(* Scenario C of generate_recommendation, under SpecRecommendation.        *)

\* C17 as stated (scenario C): momentum Strong Bearish, sentiment Very
\* Negative, analyst_score -1, technical score -2, price_change_1d -3 and
\* price_change_5d -6 yield price score -0.8, total -1.68, action Strong Sell
\* and confidence High.
C17_Original_ScenarioC ==
  (/\ pc = "return"
   /\ args.momentum = "Strong Bearish" /\ args.sentiment = "Very Negative"
   /\ FEq(args.analyst_score, FInt(-1))
   /\ Has(args.technical_score, "score") /\ FEq(args.technical_score["score"], FInt(-2))
   /\ Has(args.price_changes, "price_change_1d")
   /\ FEq(args.price_changes["price_change_1d"], FInt(-3))
   /\ Has(args.price_changes, "price_change_5d")
   /\ FEq(args.price_changes["price_change_5d"], FInt(-6)))
  => /\ FEq(price_score_of(args.price_changes), Dec(-8, 10))
     /\ FEq(result.score, Dec(-168, 100))
     /\ result.action = "Strong Sell"
     /\ result.confidence = "High"

\* C17 as amended: in scenario C the price score is -0.8, the total is the
\* float next below -1.68 (-1.6800000000000002: the sum -0.5 - 0.4 - 0.2 - 0.5
\* - 0.08 rounded at each step), the action Strong Sell and the confidence
\* High.
C17_ScenarioC ==
  (/\ pc = "return"
   /\ args.momentum = "Strong Bearish" /\ args.sentiment = "Very Negative"
   /\ FEq(args.analyst_score, FInt(-1))
   /\ Has(args.technical_score, "score") /\ FEq(args.technical_score["score"], FInt(-2))
   /\ Has(args.price_changes, "price_change_1d")
   /\ FEq(args.price_changes["price_change_1d"], FInt(-3))
   /\ Has(args.price_changes, "price_change_5d")
   /\ FEq(args.price_changes["price_change_5d"], FInt(-6)))
  => /\ FEq(price_score_of(args.price_changes), Dec(-8, 10))
     /\ result.score = [Dec(-168, 100) EXCEPT !.m = BAdd(@, <<1>>)]
     /\ result.action = "Strong Sell"
     /\ result.confidence = "High"

\* the call of scenario C has returned Strong Sell
C17_Witness ==
  /\ pc = "return"
  /\ args.momentum = "Strong Bearish" /\ args.sentiment = "Very Negative"
  /\ args.analyst_score = FInt(-1)
  /\ args.technical_score = [score |-> FInt(-2)]
  /\ args.price_changes = [price_change_1d |-> FInt(-3), price_change_5d |-> FInt(-6)]
  /\ result.action = "Strong Sell"
  /\ FLt(result.score, Dec(-168, 100))

----------------------------------------------------------------------------
(* Further claims about calculate_momentum_signal, under SpecMomentum.     *)

\* C18: calculate_momentum_signal is independent of volatility: for all ma50,
\* ma200, current_price and rsi, any two calls that differ only in the
\* volatility argument return the same label.
C18_VolatilityIgnored ==
  pc = "return" =>
    \A volatility \in Volatilities \cup {NaN} :
      calculate_momentum_signal(args.ma50, args.ma200, args.current_price, args.rsi,
                                volatility) = result

\* a call with high volatility whose label is not Neutral
C18_Witness ==
  /\ pc = "return"
  /\ args.volatility = Dec(6, 100)
  /\ result = "Strong Bearish"

----------------------------------------------------------------------------
(* Claims about the tickers of one analyze_portfolio call, under Spec.     *)

\* C19 as stated: the AnalysisResult of a ticker depends only on that
\* ticker's own snapshot, headlines and analyst entry; adding, removing or
\* changing any other ticker's data in stock_data, news_data or analyst_data
\* leaves that ticker's result unchanged.  Here: whenever the call on the
\* ticker's own data alone returns a result, the call on the whole portfolio
\* returns the same result for that ticker.
C19_OwnDataOnly ==
  \A ticker \in DOMAIN args.stock_data :
    LET Only(d) == [t \in DOMAIN d \cap {ticker} |-> d[t]]
        alone   == analyze_portfolio(Only(args.stock_data), Only(args.news_data),
                                     Only(args.analyst_data))
    IN  (pc # "call" /\ alone # KeyError) =>
          pc = "return" /\ result[ticker] = alone[ticker]

\* C20: for a ticker present in stock_data but absent from analyst_data the
\* analysis uses consensus Hold and score 0, and for a ticker absent from
\* news_data it uses an empty headline list (sentiment Neutral,
\* sentiment_score 0); neither absence raises an error: a call raises only
\* when a snapshot lacks a key the loop reads by subscript.
C20_DefaultsForAbsentData ==
  /\ \A ticker \in DOMAIN args.stock_data :
       /\ (pc = "return" /\ ticker \notin DOMAIN args.analyst_data) =>
            /\ result[ticker].analyst_consensus = "Hold"
            /\ FEq(result[ticker].analyst_score, FInt(0))
       /\ (pc = "return" /\ ticker \notin DOMAIN args.news_data) =>
            /\ result[ticker].headlines = <<>>
            /\ result[ticker].sentiment = "Neutral"
            /\ FEq(result[ticker].sentiment_score, FInt(0))
  /\ (pc # "call" /\ \A ticker \in DOMAIN args.stock_data :
                        SubscriptedKeys \subseteq DOMAIN args.stock_data[ticker])
       => pc = "return"

\* a ticker analysed without an analyst entry and without news
C20_Witness ==
  /\ pc = "return"
  /\ "MSFT" \in DOMAIN args.stock_data
  /\ "MSFT" \notin DOMAIN args.analyst_data
  /\ "MSFT" \notin DOMAIN args.news_data
  /\ "AAPL" \in DOMAIN args.analyst_data
  /\ result["MSFT"].analyst_consensus = "Hold"
  /\ result["MSFT"].headlines = <<>>

----------------------------------------------------------------------------
(* Unrecognized labels in generate_recommendation, under                   *)
(* SpecRecommendation.                                                     *)

\* C21: a momentum or sentiment label outside the five recognized values
\* contributes a numeric value of 0 to the total and raises no error; the
\* result equals that obtained with the label Neutral.
C21_UnrecognizedLabelIsNeutral ==
  (pc # "call" /\ (args.momentum \notin MomentumLabels
                    \/ args.sentiment \notin SentimentLabels)) =>
    LET momentum  == IF args.momentum \in MomentumLabels THEN args.momentum ELSE "Neutral"
        sentiment == IF args.sentiment \in SentimentLabels THEN args.sentiment ELSE "Neutral"
        M == IF args.momentum \in MomentumLabels THEN momentum_scores(args.momentum)
             ELSE FInt(0)
        S == IF args.sentiment \in SentimentLabels THEN sentiment_scores(args.sentiment)
             ELSE FInt(0)
    IN  /\ pc = "return"
        /\ FEq(result.score,
               WeightedTotal(M, S, args.analyst_score,
                             Get(args.technical_score, "score", Lit_0),
                             price_score_of(args.price_changes)))
        /\ result = generate_recommendation(momentum, sentiment, args.analyst_score,
                                            args.technical_score, args.price_changes)

\* an unrecognized sentiment next to a recognized momentum, the total on the
\* edge of a band: Strong Bullish alone gives exactly 0.5, Hold
C21_Witness ==
  /\ pc = "return"
  /\ args.momentum = "Strong Bullish"
  /\ args.sentiment \notin SentimentLabels
  /\ IsZero(args.analyst_score)
  /\ FEq(result.score, Lit_0_5)
  /\ result.action = "Hold"

----------------------------------------------------------------------------
(* The momentum thresholds, under SpecMomentum.                            *)

\* C22 as stated: with ma50 > ma200, current_price <= ma50 and 30 <= rsi <= 70
\* the score is 0.4 - 0.3 = 0.1, which is not > 0.1, so the label is Neutral
\* (not Bullish); symmetrically with ma50 <= ma200, current_price > ma50 and
\* 30 <= rsi <= 70 the score is -0.1 and the label is Neutral (not Bearish).
C22_ThresholdIsNeutral ==
  (pc = "return" /\ FGe(args.rsi, FInt(30)) /\ FLe(args.rsi, FInt(70))) =>
    /\ (FGt(args.ma50, args.ma200) /\ FLe(args.current_price, args.ma50)) =>
         /\ FEq(momentum_score_of(args.ma50, args.ma200, args.current_price, args.rsi),
                Dec(1, 10))
         /\ result = "Neutral"
    /\ (FLe(args.ma50, args.ma200) /\ FGt(args.current_price, args.ma50)) =>
         /\ FEq(momentum_score_of(args.ma50, args.ma200, args.current_price, args.rsi),
                Dec(-1, 10))
         /\ result = "Neutral"

----------------------------------------------------------------------------
(* The volume rule of calculate_technical_score, under SpecTechnical.      *)

\* C23: volume > 1.5 * avg_volume adds +0.5 and the tag High Volume; volume <
\* 0.5 * avg_volume adds -0.5 and the tag Low Volume; otherwise nothing is
\* added.  The two tags never appear together, and when avg_volume is 0 (its
\* default) any positive volume yields High Volume.
C23_VolumeRule ==
  pc = "return" =>
    LET d          == args.stock_data
        p          == d["current_price"]
        volume     == Get(d, "volume", FInt(0))
        avg_volume == Get(d, "avg_volume", FInt(0))
        high       == FGt(volume, FMul(Dec(15, 10), avg_volume))
        low        == FLt(volume, FMul(Dec(5, 10), avg_volume))
        before     == MovingAverageAnalysis(
                        RsiAnalysis([score |-> Lit_0, signals |-> <<>>],
                                    Get(d, "rsi", Lit_50)),
                        p, Get(d, "ma20", p), Get(d, "ma50", p), Get(d, "ma200", p)).score
        After(score) ==
          VolatilityAnalysis([score |-> score, signals |-> <<>>],
                             Get(d, "volatility", Lit_0)).score
        Tagged(tag) == \E i \in DOMAIN result.signals : result.signals[i] = tag
    IN  /\ high => /\ Tagged("High Volume")
                   /\ FEq(result.score, After(FAdd(before, Dec(5, 10))))
        /\ low => /\ Tagged("Low Volume")
                  /\ FEq(result.score, After(FAdd(before, Dec(-5, 10))))
        /\ (~high /\ ~low) => /\ ~Tagged("High Volume") /\ ~Tagged("Low Volume")
                              /\ FEq(result.score, After(before))
        /\ ~(Tagged("High Volume") /\ Tagged("Low Volume"))
        /\ (FEq(avg_volume, FInt(0)) /\ FGt(volume, FInt(0))) => Tagged("High Volume")

\* a volume of exactly 1.5 times the average: no tag
C23_Witness ==
  /\ pc = "return"
  /\ Has(args.stock_data, "volume") /\ Has(args.stock_data, "avg_volume")
  /\ args.stock_data["volume"] = FInt(75)
  /\ args.stock_data["avg_volume"] = Lit_50
  /\ \A i \in DOMAIN result.signals : result.signals[i] # "High Volume"

----------------------------------------------------------------------------
(* Claims about fetch_analyst_recommendations, under SpecAnalyst.          *)

\* C24: fetch_analyst_recommendations always returns an AnalystConsensus with
\* score in [-1, 1] and count >= 0, where consensus is Buy iff score > 0.3,
\* Sell iff score < -0.3 and Hold otherwise; when no rating is found or any
\* exception occurs it returns exactly consensus Hold, score 0, count 0.
C24_AnalystConsensus ==
  pc # "call" =>
    LET rated == {i \in DOMAIN args.rec_elements :
                    args.rec_elements[i] \in {"Buy", "OVERWEIGHT", "Hold", "Sell",
                                              "underweight"}}
    IN  /\ pc = "return"
        /\ DOMAIN result = {"consensus", "score", "count"}
        /\ FGe(result.score, FInt(-1)) /\ FLe(result.score, FInt(1))
        /\ result.count >= 0
        /\ result.consensus \in {"Buy", "Hold", "Sell"}
        /\ result.consensus = "Buy" <=> FGt(result.score, Dec(3, 10))
        /\ result.consensus = "Sell" <=> FLt(result.score, Dec(-3, 10))
        /\ (args.raises \/ rated = {}) =>
             /\ result.consensus = "Hold"
             /\ FEq(result.score, FInt(0))
             /\ result.count = 0
        /\ ~args.raises => result.count = Cardinality(rated)

\* ten ratings averaging exactly 0.3: Hold
C24_Witness ==
  /\ pc = "return"
  /\ result.count = 10
  /\ FEq(result.score, Dec(3, 10))
  /\ result.consensus = "Hold"

----------------------------------------------------------------------------
(* Momentum against action in analyze_portfolio, under Spec.               *)

\* C25: for every snapshot, headline list and analyst score in [-1, 1], a
\* ticker whose momentum is Strong Bullish never receives the action Strong
\* Sell, and a ticker whose momentum is Strong Bearish never receives the
\* action Strong Buy.
C25_MomentumBoundsAction ==
  pc = "return" =>
    \A ticker \in DOMAIN result :
      (FGe(result[ticker].analyst_score, FInt(-1)) /\ FLe(result[ticker].analyst_score, FInt(1)))
      => /\ result[ticker].momentum = "Strong Bullish" =>
              result[ticker].recommendation.action # "Strong Sell"
         /\ result[ticker].momentum = "Strong Bearish" =>
              result[ticker].recommendation.action # "Strong Buy"

\* a Strong Bullish ticker with everything else against it: Consider Selling
C25_Witness ==
  /\ pc = "return"
  /\ "AAPL" \in DOMAIN result
  /\ result["AAPL"].momentum = "Strong Bullish"
  /\ result["AAPL"].sentiment = "Very Negative"
  /\ result["AAPL"].analyst_score = FInt(-1)
  /\ FLt(result["AAPL"].technical_analysis.score, FInt(-1))
  /\ result["AAPL"].recommendation.action = "Consider Selling"

----------------------------------------------------------------------------
(* Monotonicity of generate_recommendation, under SpecRecommendationCalls. *)

\* C26: generate_recommendation is monotone: if the momentum value, sentiment
\* value, analyst score, technical score, price_change_1d and price_change_5d
\* of one input are each >= those of another input, then its total score is >=
\* and its action is never in a lower band (order Strong Sell < Consider
\* Selling < Hold < Buy < Strong Buy).
C26_Monotone ==
  pc = "return" =>
    LET MomentumValue(label) ==
          CASE label = "Strong Bullish" -> 2 [] label = "Bullish" -> 1
            [] label = "Bearish" -> -1 [] label = "Strong Bearish" -> -2 [] OTHER -> 0
        SentimentValue(label) ==
          CASE label = "Very Positive" -> 2 [] label = "Positive" -> 1
            [] label = "Negative" -> -1 [] label = "Very Negative" -> -2 [] OTHER -> 0
        Band(action) ==
          CASE action = "Strong Sell" -> 1 [] action = "Consider Selling" -> 2
            [] action = "Hold" -> 3 [] action = "Buy" -> 4 [] action = "Strong Buy" -> 5
        AtLeast(b, a) ==
          /\ MomentumValue(b.momentum) >= MomentumValue(a.momentum)
          /\ SentimentValue(b.sentiment) >= SentimentValue(a.sentiment)
          /\ FGe(b.analyst_score, a.analyst_score)
          /\ FGe(Get(b.technical_score, "score", FInt(0)),
                 Get(a.technical_score, "score", FInt(0)))
          /\ FGe(Get(b.price_changes, "price_change_1d", FInt(0)),
                 Get(a.price_changes, "price_change_1d", FInt(0)))
          /\ FGe(Get(b.price_changes, "price_change_5d", FInt(0)),
                 Get(a.price_changes, "price_change_5d", FInt(0)))
    IN  AtLeast(args[2], args[1]) =>
          /\ FGe(result[2].score, result[1].score)
          /\ Band(result[2].action) >= Band(result[1].action)

\* two calls, the second greater in every component
C26_Witness ==
  /\ pc = "return"
  /\ args[1] = [momentum |-> "Neutral", sentiment |-> "Very Negative",
                analyst_score |-> FInt(-1), technical_score |-> EmptyDict,
                price_changes |-> [price_change_1d |-> Lit_2, price_change_5d |-> Lit_5]]
  /\ args[2] = [momentum |-> "Strong Bullish", sentiment |-> "Neutral",
                analyst_score |-> Dec(625, 1000), technical_score |-> [score |-> Dec(35, 10)],
                price_changes |-> [price_change_1d |-> FInt(3), price_change_5d |-> FInt(6)]]
  /\ result[1].action = "Consider Selling"
  /\ result[2].action = "Strong Buy"

----------------------------------------------------------------------------
(* The range of calculate_technical_score, under SpecTechnical.            *)

\* C27: for every snapshot the score lies in [-3.5, 3.8] and the signals list
\* has between 2 and 4 entries, containing exactly one of RSI Oversold, RSI
\* Overbought, RSI Neutral and exactly one of Strong Uptrend, Uptrend, Strong
\* Downtrend, Downtrend, Mixed Signals; the trend label is Sideways only when
\* the score is exactly 0.
C27_TechnicalRange ==
  pc = "return" =>
    LET Among(tags) == {i \in DOMAIN result.signals : result.signals[i] \in tags}
    IN  /\ FGe(result.score, Dec(-35, 10)) /\ FLe(result.score, Dec(38, 10))
        /\ Len(result.signals) \in 2..4
        /\ Cardinality(Among({"RSI Oversold", "RSI Overbought", "RSI Neutral"})) = 1
        /\ Cardinality(Among({"Strong Uptrend", "Uptrend", "Strong Downtrend",
                              "Downtrend", "Mixed Signals"})) = 1
        /\ result.trend = "Sideways" => FEq(result.score, FInt(0))

\* the greatest score: oversold, strong uptrend, high volume, high volatility
C27_Witness ==
  /\ pc = "return"
  /\ FEq(result.score, Dec(38, 10))
  /\ Len(result.signals) = 4

----------------------------------------------------------------------------
(* Unknown moving averages in calculate_technical_score, under             *)
(* SpecTechnical.                                                          *)

\* C28: when any of ma20, ma50, ma200 is present in the snapshot but holds the
\* unknown sentinel (NaN, every comparison false), the trend tag and score
\* contribution are the same as if current_price had been substituted for
\* each unknown value; in particular Strong Uptrend and Strong Downtrend are
\* never emitted and no exception is raised.
C28_UnknownAverageAsPrice ==
  LET d       == args.stock_data
      Unknown(key) == Has(d, key) /\ IsNaN(d[key])
      p       == d["current_price"]
      Or(key) == IF Has(d, key) /\ ~IsNaN(d[key]) THEN d[key] ELSE p
      m20     == Or("ma20")
      m50     == Or("ma50")
      m200    == Or("ma200")
      up      == FGt(p, m20) /\ FGt(m20, m50)
      down    == FLt(p, m20) /\ FLt(m20, m50)
      step    == IF up THEN (IF FGt(m50, m200) THEN 2 ELSE 1)
                 ELSE IF down THEN (IF FLt(m50, m200) THEN -2 ELSE -1)
                 ELSE 0
      tag     == CASE step = 2 -> "Strong Uptrend" [] step = 1 -> "Uptrend"
                   [] step = -2 -> "Strong Downtrend" [] step = -1 -> "Downtrend"
                   [] step = 0 -> "Mixed Signals"
      rsi     == RsiAnalysis([score |-> Lit_0, signals |-> <<>>], Get(d, "rsi", Lit_50)).score
      Rest(score) ==
        VolatilityAnalysis(VolumeAnalysis([score |-> score, signals |-> <<>>],
                                          Get(d, "avg_volume", Lit_0),
                                          Get(d, "volume", Lit_0)),
                           Get(d, "volatility", Lit_0)).score
  IN  (pc # "call" /\ (Unknown("ma20") \/ Unknown("ma50") \/ Unknown("ma200"))) =>
        /\ pc = "return"
        /\ result.signals[2] = tag
        /\ FEq(result.score, Rest(IF step = 0 THEN rsi ELSE FAdd(rsi, FInt(step))))
        /\ \A i \in DOMAIN result.signals :
             result.signals[i] \notin {"Strong Uptrend", "Strong Downtrend"}

\* only ma200 unknown under price > ma20 > ma50: Uptrend, as with ma200 = price
C28_Witness ==
  /\ pc = "return"
  /\ Has(args.stock_data, "ma200") /\ IsNaN(args.stock_data["ma200"])
  /\ Has(args.stock_data, "ma20") /\ Has(args.stock_data, "ma50")
  /\ FGt(args.stock_data["current_price"], args.stock_data["ma20"])
  /\ FGt(args.stock_data["ma20"], args.stock_data["ma50"])
  /\ result.signals[2] = "Uptrend"

----------------------------------------------------------------------------
(* The ticker list of the UI session, under SpecSession.                   *)

\* C29: after any sequence of quick-add, add-by-text, remove and clear-all
\* actions the session's stocks list contains no duplicate ticker; an add of a
\* ticker already present leaves the list unchanged, a text add is accepted
\* only for 1 to 5 alphabetic characters, and clear-all leaves the list empty.
C29_SessionStocks ==
  /\ [](\A i, j \in 1..Len(result.stocks) :
          result.stocks[i] = result.stocks[j] => i = j)
  /\ [][LET before == result.stocks
            after  == result'.stocks
            typed  == upper(strip(args'.text))
        IN  /\ (args'.button = "quick" /\ InStocks(before, args'.stock)) => after = before
            /\ (args'.button = "quick" /\ ~InStocks(before, args'.stock)) =>
                 after = Append(before, args'.stock)
            /\ (args'.button = "add" /\ InStocks(before, typed)) => after = before
            /\ (args'.button = "add" /\ after # before) =>
                 /\ after = Append(before, typed)
                 /\ Len(typed) \in 1..5
                 /\ \A k \in 1..Len(typed) : typed[k] \in Letters
            /\ args'.button = "clear" => after = <<>>]_vars

\* a lower-case text add refused because the quick-add put the ticker there
C29_Witness ==
  /\ args = [button |-> "add", text |-> <<"a", "a", "p", "l">>]
  /\ result.stocks = <<<<"M", "S", "F", "T">>, <<"A", "A", "P", "L">>, <<"F">>>>

----------------------------------------------------------------------------
(* The fallback chain of fetch_stock_data, under SpecFetch.                *)

\* C30: for each ticker the four retrieval methods are attempted in the order
\* 1, 2, 3, 4; a later method is attempted only if every earlier one raised or
\* returned an empty history, and the ticker is given up only after all four;
\* a ticker enters the mapping only with a non-empty history some method
\* returned for it; a ticker whose methods all failed is skipped, and the
\* remaining tickers are still processed: the call returns, after the loop has
\* gone through every ticker.
C30_FallbackChain ==
  /\ [](LET log == result.attempts
        IN  \A n \in 1..Len(log) :
              /\ log[n].method = n
              /\ \A k \in 1..(n - 1) : log[k].outcome \in {"raise", "empty"})
  /\ [](LET log == result.attempts
        IN  pc = "check" =>
              /\ Len(log) >= 1
              /\ (\A n \in 1..Len(log) : log[n].outcome \in {"raise", "empty"}) => Len(log) = 4)
  /\ [][LET log == result.attempts
        IN  result'.stock_data # result.stock_data =>
              \E n \in 1..Len(log) :
                /\ log[n].outcome = "data"
                /\ result'.stock_data = Store(result.stock_data, result.ticker, History(n))]_vars
  /\ [][LET log == result.attempts
        IN  (pc = "check" /\ \A n \in 1..Len(log) : log[n].outcome \in {"raise", "empty"}) =>
              /\ pc' = "for"
              /\ result'.i = result.i + 1
              /\ result'.stock_data = result.stock_data]_vars
  /\ [](pc = "return" => result.i = Len(args.tickers))
  /\ <>(pc = "return")

\* the call returned; of its two tickers the first was skipped and the
\* second is in the mapping with the history of its third method, the first
\* two having failed
C30_Witness ==
  /\ pc = "return"
  /\ args.tickers = << <<"a", "a", "p", "l">>, <<" ", "M", "S", "F", "T">> >>
  /\ result.attempts = << [method |-> 1, outcome |-> "empty"], [method |-> 2, outcome |-> "raise"],
                          [method |-> 3, outcome |-> "data"] >>
  /\ result.stock_data = Store(EmptyDict, <<"M", "S", "F", "T">>, History(3))

====
